---- MODULE Spec2Model ----
(***************************************************************************)
(* Model of the ICON-2I ingestion / retrieval pipeline                     *)
(* (process_icon2i_hub: _ICON2IIngestor and _ICON2IRetriever).             *)
(*                                                                         *)
(* Instants are integers counting minutes from day 0, 00:00.  A date is    *)
(* the day index of an instant.  A value of a grid cell is <<v>> for the   *)
(* number v and << >> for NaN.  An optional argument is a record with a    *)
(* "kind" field ("none" for Python's None).                                *)
(***************************************************************************)
EXTENDS Integers, Sequences, FiniteSets, TLC

\* now, catalog, opendata: the clock and the remote listing and files;
\* s3, fs: the bucket objects and the local files; last: the latest top-level
\* run; nruns: the runs made; arg, res: the argument a single function of the
\* pipeline is applied to, and its result
VARIABLES now, catalog, opendata, s3, fs, last, nruns, arg, res

vars == <<now, catalog, opendata, s3, fs, last, nruns, arg, res>>

(* ------------------------------------------------------------------ *)
(* Units and program constants                                         *)
(* ------------------------------------------------------------------ *)
MinutesPerHour == 60
HoursPerDay == 24
MinutesPerDay == MinutesPerHour * HoursPerDay

\* icon_2i_ingestor.py:153  [: 12 if ids < len(grib_dss)-1 else 72]
FirstRunSteps == 12
LastRunSteps == 72
\* icon_2i_ingestor.py:221  len(ds.time) == 12
StaleSteps == 12
\* icon_2i_ingestor.py:169  d.data == 9999.0
Sentinel == 9999
\* icon_2i_retriever.py:109  timedelta(hours=48)
WindowHours == 48
\* icon_2i_retriever.py:107  (minute // 5) * 5
RoundMinutes == 5

\* _consts.py:4
DATASET_NAME == "ICON_2I_SURFACE_PRESSURE_LEVELS"

\* _consts.py:11-29: variable code -> display name (two of the nine codes)
VARIABLES_DICT ==
    [c \in {"total_precipitation", "temperature"} |->
        IF c = "total_precipitation" THEN "Total Precipitation"
                                     ELSE "2 metre temperature"]

\* list(_VARIABLES_DICT.keys()): dir() yields the attribute names sorted
AllVariables == <<"temperature", "total_precipitation">>

(* ------------------------------------------------------------------ *)
(* Bounds of the model                                                 *)
(* ------------------------------------------------------------------ *)
MaxRuns == 2          \* top-level runs in one behaviour of the pipeline
MaxRequestRuns == 1   \* top-level runs in one behaviour over all requests
MaxTicks == 2         \* 12-hour clock advances after the start
MaxCatalog == 3       \* entries the remote listing holds at once

(* ------------------------------------------------------------------ *)
(* Generic helpers on sequences                                        *)
(* ------------------------------------------------------------------ *)
Min(a, b) == IF a < b THEN a ELSE b

\* the sequence a function over 1..n is
Tup(f) == f \o << >>

Range(s) == {s[i] : i \in 1..Len(s)}

Take(s, n) == SubSeq(s, 1, Min(n, Len(s)))

RECURSIVE Flatten(_)
Flatten(ss) == IF ss = << >> THEN << >> ELSE Head(ss) \o Flatten(Tail(ss))

Count(s, e) == Cardinality({i \in 1..Len(s) : s[i] = e})

\* the position each index takes under a stable ascending sort of the keys
SortPos(keys, i) ==
    1 + Cardinality({j \in 1..Len(keys) :
                        keys[j] < keys[i] \/ (keys[j] = keys[i] /\ j < i)})

\* the permutation p with keys[p[1]] <= keys[p[2]] <= ... (stable)
SortPerm(keys) ==
    LET pos == Tup([i \in 1..Len(keys) |-> SortPos(keys, i)])
    IN  Tup([k \in 1..Len(keys) |-> CHOOSE i \in 1..Len(keys) : pos[i] = k])

IsSorted(keys) == \A i \in 1..(Len(keys) - 1) : keys[i] <= keys[i + 1]

DateOf(t) == t \div MinutesPerDay

(* ------------------------------------------------------------------ *)
(* Grid values                                                         *)
(* ------------------------------------------------------------------ *)
NaN == << >>
Num(v) == <<v>>
IsNaN(x) == x = NaN

\* np.where(d.data == 9999.0, np.nan, d.data)
MaskSentinel(x) == IF x = Num(Sentinel) THEN NaN ELSE x

\* a - b in floating point: NaN if either is NaN
Sub(a, b) == IF IsNaN(a) \/ IsNaN(b) THEN NaN ELSE Num(a[1] - b[1])

\* xr.where(x < 0, 0, x): NaN < 0 is False
Clamp(x) == IF ~IsNaN(x) /\ x[1] < 0 THEN Num(0) ELSE x

\* the mask of line 169 on every cell of a grid
MaskGrid(g) == Tup([y \in 1..Len(g) |-> Tup([x \in 1..Len(g[y]) |-> MaskSentinel(g[y][x])])])

\* the clamp of line 192 on every cell of a grid
ClampGrid(g) == Tup([y \in 1..Len(g) |-> Tup([x \in 1..Len(g[y]) |-> Clamp(g[y][x])])])

GridSub(g, h) == Tup([y \in 1..Len(g) |-> Tup([x \in 1..Len(g[y]) |-> Sub(g[y][x], h[y][x])])])

(* ------------------------------------------------------------------ *)
(* Optional arguments, buckets, paths                                  *)
(* ------------------------------------------------------------------ *)
None == [kind |-> "none", val |-> << >>]
IsNone(a) == a.kind = "none"
Str(v) == [kind |-> "str", val |-> <<v>>]
List(vs) == [kind |-> "list", val |-> vs]
Other == [kind |-> "other", val |-> << >>]

\* kwargs.get(key, None)
KwGet(kwargs, key) == IF key \in DOMAIN kwargs THEN kwargs[key] ELSE None

\* a bucket string is <<scheme, name>>; s.startswith('s3://')
StartsWithS3(s) == s[1] = "s3://"

\* os.path.join(dir, name) and f'{bucket}/{name}': a reference to a stored file
Join(loc, name) == [loc |-> loc, name |-> name]

\* a directory is the sequence of its path components
IngestorTmp == <<"file", "ICON_2I_SURFACE_PRESSURE_LEVELS__Ingestor">>
RetrieverTmp == <<"file", "ICON_2I_SURFACE_PRESSURE_LEVELS__Retriever">>

InDir(loc, dir) == Len(loc) >= Len(dir) /\ SubSeq(loc, 1, Len(dir)) = dir

Put(f, k, v) == [x \in (DOMAIN f) \cup {k} |-> IF x = k THEN v ELSE f[x]]

\* module_s3.s3_upload(fp, uri): the object at uri is replaced by the file
s3_upload(store, uri, content) == Put(store, uri, content)

\* module_s3.s3_list(bucket, filename_prefix): the keys under the bucket whose
\* file name starts with '{DATASET_NAME}__{variable}__'
s3_list(store, bucket, variable) ==
    {k \in DOMAIN store : k.loc = bucket /\ k.name[1] = DATASET_NAME /\ k.name[2] = variable}

\* filesystem.garbage_folders(folder): everything under the folder is removed
garbage_folders(files, folder) ==
    [p \in {q \in DOMAIN files : ~InDir(q.loc, folder)} |-> files[p]]

\* the record of the effects of a run so far: local files, bucket objects, and
\* the log of the network and storage calls made
Io(f, s, l) == [fs |-> f, s3 |-> s, log |-> l]

Logged(io, ev) == [io EXCEPT !.log = Append(@, ev)]

(* ------------------------------------------------------------------ *)
(* Catalog Client                                                      *)
(* ------------------------------------------------------------------ *)
\* datetime.fromisoformat(f'{row.date}T{row.run}')
ForecastRunOf(entry) == entry.date * MinutesPerDay + entry.run

\* a variant of get_avaliable_forecast_runs that answers a refused request
\* with an empty listing
AvaliableRunsOrNone(io, cat, catFail) ==
    [exc |-> "",
     avaliable_data |-> IF Count(io.log, "catalog") + 1 = catFail THEN << >> ELSE cat,
     io |-> Logged(io, "catalog")]

\* get_avaliable_forecast_runs: one GET of the listing.  The call that is
\* number catFail of the run answers with a non-200 status, and the function
\* then reads a variable it never assigned (UnboundLocalError).
get_avaliable_forecast_runs(io, cat, catFail) ==
    [exc |-> IF Count(io.log, "catalog") + 1 = catFail THEN "UnboundLocalError" ELSE "",
     avaliable_data |-> cat,
     io |-> Logged(io, "catalog")]

\* avaliable_data.forecast_run.tolist()
AvaliableRuns(avaliable_data) ==
    Tup([i \in 1..Len(avaliable_data) |-> ForecastRunOf(avaliable_data[i])])

\* line 58, on the listing r that line 56 got
PingAnswer(r, forecast_datetime_runs) ==
    [exc |-> r.exc,
     all |-> \A fdr \in Range(forecast_datetime_runs) :
                fdr \in Range(AvaliableRuns(r.avaliable_data)),
     io |-> r.io]

\* ping_avaliable_runs
ping_avaliable_runs(forecast_datetime_runs, io, cat, catFail) ==
    PingAnswer(get_avaliable_forecast_runs(io, cat, catFail), forecast_datetime_runs)

\* the filename column of rows of the listing
Filenames(rows) == Tup([i \in 1..Len(rows) |-> rows[i].filename])

\* line 126, on the listing r that line 125 got: the listing's rows of the
\* requested runs, in the listing's order
ListedFilenames(r, forecast_datetime_runs) ==
    LET isin(e) == ForecastRunOf(e) \in Range(forecast_datetime_runs)
    IN  [exc |-> r.exc,
         filenames |-> Filenames(SelectSeq(r.avaliable_data, isin)),
         io |-> r.io]

\* get_icon2I_data_filenames
get_icon2I_data_filenames(forecast_datetime_runs, io, cat, catFail) ==
    ListedFilenames(get_avaliable_forecast_runs(io, cat, catFail), forecast_datetime_runs)

(* ------------------------------------------------------------------ *)
(* Ingestor: argument validation                                       *)
(* ------------------------------------------------------------------ *)
\* lines 73-83 (and retriever 54-64), on the list the argument stands for
CheckVariable(v) ==
    IF v.kind \notin {"str", "list"} THEN [exc |-> "INVALID", variable |-> << >>]
    ELSE IF \E i \in 1..Len(v.val) : v.val[i] \notin DOMAIN VARIABLES_DICT
         THEN [exc |-> "INVALID", variable |-> << >>]
    ELSE [exc |-> "", variable |-> v.val]

\* lines 73-83 (and retriever 54-64): the normalised list of variable codes
ValidateVariable(variable) ==
    CheckVariable(IF IsNone(variable) THEN List(AllVariables) ELSE variable)

\* lines 92-93: a forecast run string [iso, t] parses and names a 00:00 or 12:00
ValidRunString(rfr) ==
    /\ rfr.iso
    /\ (rfr.t % MinutesPerDay) \div MinutesPerHour \in {0, 12}
    /\ rfr.t % MinutesPerHour = 0

\* line 98: [fr for fr in forecast_run if self.ping_avaliable_runs([fr])],
\* one listing request per requested run, the first failing one raising
RECURSIVE PingFilter(_, _, _, _)

PingKeep(runs, p, rest) ==
    [exc |-> rest.exc,
     runs |-> IF p.all THEN <<Head(runs)>> \o rest.runs ELSE rest.runs,
     io |-> rest.io]

PingNext(runs, p, cat, catFail) ==
    IF p.exc # "" THEN [exc |-> p.exc, runs |-> << >>, io |-> p.io]
    ELSE PingKeep(runs, p, PingFilter(Tail(runs), p.io, cat, catFail))

PingFilter(runs, io, cat, catFail) ==
    IF runs = << >> THEN [exc |-> "", runs |-> << >>, io |-> io]
    ELSE PingNext(runs, ping_avaliable_runs(<<Head(runs)>>, io, cat, catFail), cat, catFail)

\* lines 100-101, on the listing r
ListedRuns(r) ==
    [exc |-> r.exc, runs |-> AvaliableRuns(r.avaliable_data), io |-> r.io]

\* lines 85-101
ValidateForecastRun(forecast_run, io, cat, catFail) ==
    IF ~IsNone(forecast_run)
    THEN IF forecast_run.kind \notin {"str", "list"}
         THEN [exc |-> "INVALID", runs |-> << >>, io |-> io]
         ELSE IF \E i \in 1..Len(forecast_run.val) : ~ValidRunString(forecast_run.val[i])
         THEN [exc |-> "INVALID", runs |-> << >>, io |-> io]
         ELSE PingFilter(Tup([i \in 1..Len(forecast_run.val) |-> forecast_run.val[i].t]),
                         io, cat, catFail)
    ELSE ListedRuns(get_avaliable_forecast_runs(io, cat, catFail))

\* lines 103-107 (and retriever 120-130): a bucket argument is a string that
\* starts with s3://
ValidBucket(b) == IsNone(b) \/ (b.kind = "str" /\ StartsWithS3(b.val[1]))

\* a raise of argument_validation after the effects i
IngestorInvalid(e, i) ==
    [exc |-> e, io |-> i, variable |-> << >>, requested_forecast_run |-> << >>,
     bucket_destination |-> None, out |-> IngestorTmp]

\* lines 73-121, on the checked variable v and the checked runs fr
IngestorChecked(v, fr, bucket_destination, out_dir, io) ==
    IF v.exc # "" THEN IngestorInvalid(v.exc, io)
    ELSE IF fr.exc # "" THEN IngestorInvalid(fr.exc, fr.io)
    ELSE IF ~ValidBucket(bucket_destination) THEN IngestorInvalid("INVALID", fr.io)
    ELSE IF ~IsNone(out_dir) /\ out_dir.kind # "str" THEN IngestorInvalid("INVALID", fr.io)
    ELSE [exc |-> "",
          io |-> IF IsNone(out_dir) THEN fr.io ELSE Logged(fr.io, "makedirs"),
          variable |-> v.variable,
          requested_forecast_run |-> fr.runs,
          bucket_destination |-> bucket_destination,
          out |-> IF IsNone(out_dir) THEN IngestorTmp ELSE out_dir.val[1]]

\* _ICON2IIngestor.argument_validation(**kwargs)
IngestorValidation(kwargs, io, cat, catFail) ==
    IngestorChecked(ValidateVariable(KwGet(kwargs, "variable")),
                    ValidateForecastRun(KwGet(kwargs, "forecast_run"), io, cat, catFail),
                    KwGet(kwargs, "bucket_destination"), KwGet(kwargs, "out_dir"), io)

(* ------------------------------------------------------------------ *)
(* Raw Fetcher                                                         *)
(* ------------------------------------------------------------------ *)
\* one decoded message of a published file, step i of the run: the running
\* total of every cell, with the sentinel in one cell of some steps
GridLat == <<45, 44>>
GridLon == <<11, 12>>

CellValue(name, i, y, x) ==
    IF i % 5 = 3 /\ y = 1 /\ x = 1 THEN Num(Sentinel)
    ELSE IF name = "Total Precipitation" THEN Num((i * (y + x)) % 7)
    ELSE Num(((i + x) % 4) - 2)

Message(name, run, i) ==
    [name |-> name,
     validDate |-> run + i * MinutesPerHour,
     values |-> Tup([y \in 1..Len(GridLat) |->
                    Tup([x \in 1..Len(GridLon) |-> CellValue(name, i, y, x)])]),
     lats |-> GridLat,
     lons |-> GridLon]

\* the messages of the file of a run that holds nsteps steps: for each step
\* one message per variable
GribFile(run, nsteps) ==
    Flatten(Tup([i \in 1..nsteps |->
                Tup([k \in 1..Len(AllVariables) |->
                    Message(VARIABLES_DICT[AllVariables[k]], run, i - 1)])]))

\* lines 134-142: one GET of a file; an answer of 200 is written to the
\* workspace
Downloaded(rf, io, files, dlFail) ==
    IF rf \notin dlFail
    THEN [Logged(io, "download") EXCEPT
             !.fs = Put(@, Join(IngestorTmp, rf), [grib |-> files[rf]])]
    ELSE Logged(io, "download")

\* lines 133-142: the loop over the listed filenames
RECURSIVE DownloadFiles(_, _, _, _)

DownloadKeep(rf, dlFail, rest) ==
    [paths |-> (IF rf \notin dlFail THEN <<Join(IngestorTmp, rf)>> ELSE << >>) \o rest.paths,
     io |-> rest.io]

DownloadFiles(names, io, files, dlFail) ==
    IF names = << >> THEN [paths |-> << >>, io |-> io]
    ELSE DownloadKeep(Head(names), dlFail,
                      DownloadFiles(Tail(names), Downloaded(Head(names), io, files, dlFail),
                                    files, dlFail))

\* line 143: return icon2I_file_paths
DownloadDone(d) == [exc |-> "", paths |-> d.paths, io |-> d.io]

\* lines 132-143, on the filenames r that line 131 got
DownloadListed(r, files, dlFail) ==
    IF r.exc # "" THEN [exc |-> r.exc, paths |-> << >>, io |-> r.io]
    ELSE DownloadDone(DownloadFiles(r.filenames, r.io, files, dlFail))

\* download_icon2I_data
download_icon2I_data(forecast_datetime_runs, io, cat, files, catFail, dlFail) ==
    DownloadListed(get_icon2I_data_filenames(forecast_datetime_runs, io, cat, catFail),
                   files, dlFail)

\* pygrib.open(gf): the messages of a downloaded file; a published file is
\* kept as [run, nsteps] and decoded here
pygrib_open(files, gf) == GribFile(files[gf].grib.run, files[gf].grib.nsteps)

(* ------------------------------------------------------------------ *)
(* Grib Time-Series Assembler                                          *)
(* ------------------------------------------------------------------ *)
\* _consts.py:31-33: the variables _DATA_CUBE_PROCESSING names as cumulative
CumulativeVariables == {"total_precipitation"}

\* a variant of Decumulate that keeps the running totals as they are
DecumulateSkipped(A) == A

\* line 173 and _consts.py:32: [A[0], A[1]-A[0], A[2]-A[1], ...]
Decumulate(A) ==
    Tup([i \in 1..Len(A) |-> IF i = 1 THEN A[1] ELSE GridSub(A[i], A[i - 1])])

\* lines 157-184: the dataset of the messages gmsg kept of one file
MessagesDataset(gmsg) ==
    IF gmsg = << >> THEN [exc |-> "IndexError"]
    ELSE [exc |-> "",
          time |-> Tup([i \in 1..Len(gmsg) |-> gmsg[1].validDate + (i - 1) * MinutesPerHour]),
          lat |-> gmsg[1].lats,
          lon |-> gmsg[1].lons,
          data |-> Decumulate(Tup([i \in 1..Len(gmsg) |->
                                      MaskGrid(gmsg[i].values)]))]

\* a variant of FileDataset that takes the full horizon of every file
FileDatasetAllSteps(grib_ds, ids, nfiles, variable) ==
    LET named(msg) == msg.name = VARIABLES_DICT[variable]
    IN  MessagesDataset(Take(SelectSeq(grib_ds, named), LastRunSteps))

\* lines 153-184: the dataset of file number ids of a batch of nfiles
FileDataset(grib_ds, ids, nfiles, variable) ==
    LET named(msg) == msg.name = VARIABLES_DICT[variable]
    IN  MessagesDataset(Take(SelectSeq(grib_ds, named),
                             IF ids < nfiles - 1 THEN FirstRunSteps ELSE LastRunSteps))

\* the order that sorts the keys ascending
SortOrder(keys) ==
    IF IsSorted(keys) THEN Tup([k \in 1..Len(keys) |-> k]) ELSE SortPerm(keys)

\* the dataset at the indices pt, py, px of its coordinates
Reorder(ds, pt, py, px) ==
    [time |-> Tup([k \in 1..Len(pt) |-> ds.time[pt[k]]]),
     lat |-> Tup([k \in 1..Len(py) |-> ds.lat[py[k]]]),
     lon |-> Tup([k \in 1..Len(px) |-> ds.lon[px[k]]]),
     data |-> Tup([k \in 1..Len(pt) |->
                 Tup([y \in 1..Len(py) |->
                     Tup([x \in 1..Len(px) |-> ds.data[pt[k]][py[y]][px[x]]])])])]

\* ds.sortby(['time', 'lat', 'lon']): the coordinates ascending, the data
\* carried along
SortBy(ds) == Reorder(ds, SortOrder(ds.time), SortOrder(ds.lat), SortOrder(ds.lon))

\* xr.concat(dss, dim='time') of datasets on one grid
ConcatTime(dss) ==
    [time |-> Flatten(Tup([i \in 1..Len(dss) |-> dss[i].time])),
     lat |-> dss[1].lat,
     lon |-> dss[1].lon,
     data |-> Flatten(Tup([i \in 1..Len(dss) |-> dss[i].data]))]

\* line 192: xr.where(ds[variable] < 0, 0, ds[variable])
ClampDataset(ds) ==
    [ds EXCEPT !.data = Tup([k \in 1..Len(ds.data) |-> ClampGrid(ds.data[k])])]

\* lines 186-193, on the datasets dss of the files
ConcatFiles(dss) ==
    IF \E i \in 1..Len(dss) : dss[i].exc # "" THEN [exc |-> "IndexError"]
    ELSE IF dss = << >> THEN [exc |-> "ValueError"]
    ELSE [exc |-> "", ds |-> ClampDataset(SortBy(ConcatTime(dss)))]

\* lines 150-184: the loop over the files
FileDatasets(grib_dss, variable) ==
    Tup([i \in 1..Len(grib_dss) |-> FileDataset(grib_dss[i], i - 1, Len(grib_dss), variable)])

\* icon_2I_time_concat(grib_dss, variable)
icon_2I_time_concat(grib_dss, variable) == ConcatFiles(FileDatasets(grib_dss, variable))

(* ------------------------------------------------------------------ *)
(* Date Partitioner                                                    *)
(* ------------------------------------------------------------------ *)
\* the steps of the dataset at the indices keep
SelSteps(dataset, keep) ==
    [dataset EXCEPT !.time = Tup([k \in 1..Len(keep) |-> dataset.time[keep[k]]]),
                    !.data = Tup([k \in 1..Len(keep) |-> dataset.data[keep[k]]])]

\* dataset.sel(time=dataset.time.dt.date == date)
SelDate(dataset, date) ==
    LET on(i) == DateOf(dataset.time[i]) = date
    IN  SelSteps(dataset, SelectSeq(Tup([i \in 1..Len(dataset.time) |-> i]), on))

\* sorted(list(set(dataset.time.dt.date.values)))
RECURSIVE SortedSeq(_)

SortedFrom(S, m) == <<m>> \o SortedSeq(S \ {m})

SortedSeq(S) ==
    IF S = {} THEN << >> ELSE SortedFrom(S, CHOOSE a \in S : \A b \in S : a <= b)

\* a variant of Discarded that also takes today's partition: dt <= today
DiscardedUpToToday(dt, ds, today) == dt <= today /\ Len(ds.time) = StaleSteps

\* line 221: the partition is discarded
Discarded(dt, ds, today) == dt < today /\ Len(ds.time) = StaleSteps

\* lines 215-218: the subset of every date of dates
GroupsOf(dataset, dates) ==
    Tup([k \in 1..Len(dates) |-> [dt |-> dates[k], ds |-> SelDate(dataset, dates[k])]])

\* lines 214-218: every date of the series with its subset
DateGroups(dataset) ==
    GroupsOf(dataset, SortedSeq({DateOf(dataset.time[i]) : i \in 1..Len(dataset.time)}))

\* get_single_date_dataset(dataset), with today = datetime.today().date()
get_single_date_dataset(dataset, today) ==
    LET kept(g) == ~Discarded(g.dt, g.ds, today)
    IN  SelectSeq(DateGroups(dataset), kept)

(* ------------------------------------------------------------------ *)
(* Partition Store                                                     *)
(* ------------------------------------------------------------------ *)
\* a variant of PartitionName that leaves the date out of the name
PartitionNameNoDate(variable, dt) == <<DATASET_NAME, variable, 0, "nc">>

\* line 201: f'{_consts._DATASET_NAME}__{variable}__{dt}.nc'
PartitionName(variable, dt) == <<DATASET_NAME, variable, dt, "nc">>

\* lines 202-206: the partition g written to the directory and, with a
\* destination, uploaded
SavePartition(g, variable, out_dir, bucket_destination, io) ==
    IF ~IsNone(bucket_destination)
    THEN [Logged(io, "s3_upload") EXCEPT
             !.fs = Put(@, Join(out_dir, PartitionName(variable, g.dt)),
                        [variable |-> variable, ds |-> g.ds]),
             !.s3 = s3_upload(@, Join(bucket_destination.val[1], PartitionName(variable, g.dt)),
                              [variable |-> variable, ds |-> g.ds])]
    ELSE [io EXCEPT !.fs = Put(@, Join(out_dir, PartitionName(variable, g.dt)),
                               [variable |-> variable, ds |-> g.ds])]

\* lines 207 and 209: the reference appended for the partition g
PartitionRef(g, variable, out_dir, bucket_destination) ==
    [variable |-> variable,
     date |-> g.dt,
     ref |-> IF ~IsNone(bucket_destination)
             THEN Join(bucket_destination.val[1], PartitionName(variable, g.dt))
             ELSE Join(out_dir, PartitionName(variable, g.dt))]

\* save_date_datasets(date_datasets, variable, out_dir, bucket_destination)
RECURSIVE save_date_datasets(_, _, _, _, _)

SaveKeep(ref, rest) == [refs |-> <<ref>> \o rest.refs, io |-> rest.io]

save_date_datasets(date_datasets, variable, out_dir, bucket_destination, io) ==
    IF date_datasets = << >> THEN [refs |-> << >>, io |-> io]
    ELSE SaveKeep(PartitionRef(Head(date_datasets), variable, out_dir, bucket_destination),
                  save_date_datasets(Tail(date_datasets), variable, out_dir, bucket_destination,
                                     SavePartition(Head(date_datasets), variable, out_dir,
                                                   bucket_destination, io)))

(* ------------------------------------------------------------------ *)
(* Ingestor: run                                                       *)
(* ------------------------------------------------------------------ *)
\* lines 259-273: the loop over the variables; an exception ends it, the
\* partitions written before it stay written
RECURSIVE IngestVariables(_, _, _, _, _, _)

IngestKeep(saved, rest) ==
    [exc |-> rest.exc,
     refs |-> IF rest.exc # "" THEN << >> ELSE saved.refs \o rest.refs,
     io |-> rest.io]

\* line 273 and the next turn of the loop, on the references saved
IngestNext(variable, icon2I_file_paths, out_dir, bucket_destination, saved, today) ==
    IngestKeep(saved, IngestVariables(Tail(variable), icon2I_file_paths, out_dir,
                                      bucket_destination, saved.io, today))

\* lines 267-273, on the assembled series
IngestSeries(variable, icon2I_file_paths, out_dir, bucket_destination, io, today, timeserie_dataset) ==
    IF timeserie_dataset.exc # ""
    THEN [exc |-> timeserie_dataset.exc, refs |-> << >>, io |-> io]
    ELSE IngestNext(variable, icon2I_file_paths, out_dir, bucket_destination,
                    save_date_datasets(get_single_date_dataset(timeserie_dataset.ds, today),
                                       Head(variable), out_dir, bucket_destination, io),
                    today)

IngestVariables(variable, icon2I_file_paths, out_dir, bucket_destination, io, today) ==
    IF variable = << >> THEN [exc |-> "", refs |-> << >>, io |-> io]
    ELSE IngestSeries(variable, icon2I_file_paths, out_dir, bucket_destination, io, today,
                      icon_2I_time_concat(
                          Tup([i \in 1..Len(icon2I_file_paths) |->
                                  pygrib_open(io.fs, icon2I_file_paths[i])]),
                          Head(variable)))

\* lines 290-291: except Exception as e: raise StatusException(ERROR, ...).
\* StatusException is an Exception, so the handler also takes the INVALID that
\* argument_validation raised.
WrapException(exc) == IF exc = "" THEN "" ELSE "ERROR"

\* lines 293-294: finally: filesystem.garbage_folders(self._tmp_data_folder)
IngestorFinally(io) ==
    [Logged(io, "cleanup_ingestor") EXCEPT !.fs = garbage_folders(@, IngestorTmp)]

\* how run ends: exc is the status of the StatusException raised to the
\* caller ("" when the run returns), cause the exception that was wrapped,
\* outputs the value returned
IngestorResult(cause, refs, io, paths) ==
    [exc |-> WrapException(cause),
     cause |-> cause,
     outputs |-> IF cause = ""
                 THEN [kind |-> "dict", status |-> "OK", collected_data_info |-> refs]
                 ELSE [kind |-> "none", status |-> "", collected_data_info |-> << >>],
     paths |-> paths,
     io |-> IngestorFinally(io)]

\* lines 276-288
IngestorReturn(r, paths) == IngestorResult(r.exc, r.refs, r.io, paths)

\* lines 258-288, on the downloaded files dl
IngestorAssemble(validated_args, dl, today) ==
    IF dl.exc # "" THEN IngestorResult(dl.exc, << >>, dl.io, << >>)
    ELSE IngestorReturn(IngestVariables(validated_args.variable, dl.paths,
                                        validated_args.out,
                                        validated_args.bucket_destination, dl.io, today),
                        dl.paths)

\* lines 249-288, on the validated arguments
IngestorFetch(validated_args, cat, files, today, catFail, dlFail) ==
    IF validated_args.exc # ""
    THEN IngestorResult(validated_args.exc, << >>, validated_args.io, << >>)
    ELSE IngestorAssemble(validated_args,
                          download_icon2I_data(validated_args.requested_forecast_run,
                                               validated_args.io, cat, files, catFail, dlFail),
                          today)

\* _ICON2IIngestor.run(variable, forecast_run, out_dir, bucket_destination)
IngestorRun(variable, forecast_run, out_dir, bucket_destination, io, cat, files, today, catFail, dlFail) ==
    IngestorFetch(IngestorValidation([variable |-> variable, forecast_run |-> forecast_run,
                                      out |-> out_dir,
                                      bucket_destination |-> bucket_destination],
                                     io, cat, catFail),
                  cat, files, today, catFail, dlFail)

(* ------------------------------------------------------------------ *)
(* Retriever: argument validation                                      *)
(* ------------------------------------------------------------------ *)
\* lines 66-74 and 76-84: a range is a list of 2 numbers within [-lim, lim],
\* the first not above the second
ValidRange(r, lim) ==
    \/ IsNone(r)
    \/ /\ r.kind = "list"
       /\ Len(r.val) = 2
       /\ ~(r.val[1] < -lim \/ r.val[1] > lim \/ r.val[2] < -lim \/ r.val[2] > lim)
       /\ ~(r.val[1] > r.val[2])

LatLimit == 90
LongLimit == 180

\* a time string is [iso, t, sub]: whether it parses, its minute, and whether
\* seconds or microseconds are set.  datetime comparison a > b
TimeAfter(a, b) == a.t > b.t \/ (a.t = b.t /\ a.sub > b.sub)

\* a variant of RoundDown that keeps the minute as given
RoundDownToMinute(ts) == ts.t

\* line 107: t.replace(minute=(t.minute // 5) * 5, second=0, microsecond=0)
RoundDown(ts) == ts.t - ((ts.t % MinutesPerHour) % RoundMinutes)

\* lines 86-110: the resolved window, or INVALID
ValidateTimeRange(time_range, clock) ==
    LET islist == time_range.kind = "list"
        time_start == IF islist THEN time_range.val[1]
                      ELSE IF time_range.kind = "str" THEN time_range.val[1] ELSE None
        time_end == IF islist THEN time_range.val[2] ELSE None
        bad == [exc |-> "INVALID", time_start |-> 0, time_end |-> 0]
    IN  IF time_range.kind \notin {"str", "list"} THEN bad
        ELSE IF ~time_start.iso THEN bad
        ELSE IF islist /\ ~time_end.iso THEN bad
        ELSE IF islist /\ TimeAfter(time_start, time_end) THEN bad
        ELSE LET s == RoundDown(time_start)
                 e == IF islist THEN RoundDown(time_end) ELSE s + MinutesPerHour
             IN  IF e < clock - WindowHours * MinutesPerHour THEN bad
                 ELSE [exc |-> "", time_start |-> s, time_end |-> e]

\* a local file path is [loc, name], the name ending with its extension;
\* out.endswith('.tif')
EndsWithTif(path) == path.name[Len(path.name)] = "tif"

\* a raise of argument_validation
RetrieverInvalid(io) ==
    [exc |-> "INVALID", io |-> io, variable |-> << >>,
     lat_range |-> None, long_range |-> None, time_start |-> 0,
     time_end |-> 0, out_format |-> "tif", bucket_source |-> None,
     bucket_destination |-> None, out |-> None]

\* lines 54-153, on the checked variable v and the checked window tr
RetrieverChecked(v, lat_range, long_range, tr, out_format, bucket_source, bucket_destination, out, io) ==
    IF v.exc # "" THEN RetrieverInvalid(io)
    ELSE IF ~ValidRange(lat_range, LatLimit) THEN RetrieverInvalid(io)
    ELSE IF ~ValidRange(long_range, LongLimit) THEN RetrieverInvalid(io)
    ELSE IF tr.exc # "" THEN RetrieverInvalid(io)
    ELSE IF ~IsNone(out_format) /\ ~(out_format.kind = "str" /\ out_format.val[1] = "tif")
         THEN RetrieverInvalid(io)
    ELSE IF ~ValidBucket(bucket_destination) THEN RetrieverInvalid(io)
    ELSE IF ~ValidBucket(bucket_source) THEN RetrieverInvalid(io)
    ELSE IF ~IsNone(out) /\ ~(out.kind = "str" /\ EndsWithTif(out.val[1]))
         THEN RetrieverInvalid(io)
    ELSE [exc |-> "",
          io |-> IF ~IsNone(out) /\ out.val[1].loc # << >>
                 THEN Logged(io, "makedirs") ELSE io,
          variable |-> v.variable,
          lat_range |-> lat_range,
          long_range |-> long_range,
          time_start |-> tr.time_start,
          time_end |-> tr.time_end,
          out_format |-> "tif",
          bucket_source |-> IF IsNone(bucket_source) THEN bucket_destination
                            ELSE bucket_source,
          bucket_destination |-> bucket_destination,
          out |-> out]

\* _ICON2IRetriever.argument_validation(**kwargs)
RetrieverValidation(kwargs, io, clock) ==
    RetrieverChecked(ValidateVariable(KwGet(kwargs, "variable")),
                     KwGet(kwargs, "lat_range"), KwGet(kwargs, "long_range"),
                     ValidateTimeRange(KwGet(kwargs, "time_range"), clock),
                     KwGet(kwargs, "out_format"), KwGet(kwargs, "bucket_source"),
                     KwGet(kwargs, "bucket_destination"), KwGet(kwargs, "out"), io)

(* ------------------------------------------------------------------ *)
(* Retrieval Resolver                                                  *)
(* ------------------------------------------------------------------ *)
\* line 169: pd.date_range(time_start, time_end, freq='1d') mapped to dates:
\* time_start, time_start + 1 day, ... while not after time_end
RequestedDates(time_start, time_end) ==
    Tup([k \in 1..((time_end - time_start) \div MinutesPerDay + 1) |->
        DateOf(time_start + (k - 1) * MinutesPerDay)])

\* line 160
RequestedUris(variable, requested_dates, bucket_source) ==
    Tup([i \in 1..Len(requested_dates) |->
        Join(bucket_source, PartitionName(variable, requested_dates[i]))])

\* lines 161-162
BucketUris(variable, bucket_source, store) ==
    {Join(bucket_source, k.name) : k \in s3_list(store, bucket_source, variable)}

\* lines 163-166, on the uris avaliable
Avaliability(avaliable_uris, requested_dates) ==
    [missing |-> Len(avaliable_uris) # Len(requested_dates), uris |-> avaliable_uris]

\* lines 159-166: the uris of the requested partitions when the bucket lists
\* all of them, else "missing"
check_date_dataset_avaliability(variable, requested_dates, bucket_source, store) ==
    LET listed(ru) == ru \in BucketUris(variable, bucket_source, store)
    IN  Avaliability(SelectSeq(RequestedUris(variable, requested_dates, bucket_source), listed),
                     requested_dates)

\* d.isoformat() of a date, read back by fromisoformat as that day's 00:00
DateIso(d) == [iso |-> TRUE, t |-> d * MinutesPerDay]

\* lines 191-198: objects of a bucket are downloaded into the workspace
RECURSIVE FetchFiles(_, _)

FetchKeep(rf, rest) ==
    [exc |-> rest.exc, files |-> <<rf>> \o rest.files, io |-> rest.io]

\* a store without the object at a key
Without(store, key) == [k \in (DOMAIN store) \ {key} |-> store[k]]

\* a variant of FetchFiles that takes every object it downloads out of the
\* bucket
RECURSIVE FetchFilesMoving(_, _)

FetchFilesMoving(data_source_uris, io) ==
    IF data_source_uris = << >> THEN [exc |-> "", files |-> << >>, io |-> io]
    ELSE IF ~StartsWithS3(Head(data_source_uris).loc)
    THEN FetchKeep(Head(data_source_uris), FetchFilesMoving(Tail(data_source_uris), io))
    ELSE IF Head(data_source_uris) \notin DOMAIN io.s3
    THEN [exc |-> "S3Error", files |-> << >>, io |-> Logged(io, "s3_download")]
    ELSE FetchKeep(Join(RetrieverTmp, Head(data_source_uris).name),
                   FetchFilesMoving(Tail(data_source_uris),
                                    [Logged(io, "s3_download") EXCEPT
                                        !.fs = Put(@, Join(RetrieverTmp, Head(data_source_uris).name),
                                                   io.s3[Head(data_source_uris)]),
                                        !.s3 = Without(@, Head(data_source_uris))]))

FetchFiles(data_source_uris, io) ==
    IF data_source_uris = << >> THEN [exc |-> "", files |-> << >>, io |-> io]
    ELSE IF ~StartsWithS3(Head(data_source_uris).loc)
    THEN FetchKeep(Head(data_source_uris), FetchFiles(Tail(data_source_uris), io))
    ELSE IF Head(data_source_uris) \notin DOMAIN io.s3
    THEN [exc |-> "S3Error", files |-> << >>, io |-> Logged(io, "s3_download")]
    ELSE FetchKeep(Join(RetrieverTmp, Head(data_source_uris).name),
                   FetchFiles(Tail(data_source_uris),
                              [Logged(io, "s3_download") EXCEPT
                                  !.fs = Put(@, Join(RetrieverTmp, Head(data_source_uris).name),
                                             io.s3[Head(data_source_uris)])]))

\* a variant of SliceIdx that leaves out the upper end of the slice
SliceIdxHalfOpen(coord, lo, hi) ==
    LET within(i) == lo <= coord[i] /\ coord[i] < hi
    IN  SelectSeq(Tup([i \in 1..Len(coord) |-> i]), within)

\* sel(c=slice(lo, hi)) on an ascending coordinate: the indices kept
SliceIdx(coord, lo, hi) ==
    LET within(i) == lo <= coord[i] /\ coord[i] <= hi
    IN  SelectSeq(Tup([i \in 1..Len(coord) |-> i]), within)

\* lines 211-219: the indices a range keeps of a coordinate
RangeIdx(coord, range) ==
    IF range.kind = "list" /\ Len(range.val) = 2
    THEN SliceIdx(coord, range.val[1], range.val[2])
    ELSE Tup([i \in 1..Len(coord) |-> i])

\* lines 209-226: dataset_query with two-element ranges
dataset_query(dataset, lat_range, lon_range, time_range) ==
    Reorder(dataset,
            SliceIdx(dataset.time, time_range[1], time_range[2]),
            RangeIdx(dataset.lat, lat_range),
            RangeIdx(dataset.lon, lon_range))

\* lines 200-227: open, concatenate, sort and window the files of one variable
OpenAndQuery(retrived_files, lat_range, lon_range, time_start, time_end, io) ==
    IF \E i \in 1..Len(retrived_files) : retrived_files[i] \notin DOMAIN io.fs
    THEN [exc |-> "FileNotFoundError"]
    ELSE IF retrived_files = << >> THEN [exc |-> "ValueError"]
    ELSE [exc |-> "",
          dataset |-> dataset_query(
              SortBy(ConcatTime(Tup([i \in 1..Len(retrived_files) |->
                                        io.fs[retrived_files[i]].ds]))),
              lat_range, lon_range, <<time_start, time_end>>)]

\* lines 179-185: the ingestor run for all the requested variables and the
\* midnight runs of the requested dates.  env holds what a run reads of its
\* surroundings: the listing, the published files, the clock and the failures
\* of the remote calls.
Backfill(variable, requested_dates, bucket_source, io, env) ==
    IngestorRun(List(variable),
                List(Tup([i \in 1..Len(requested_dates) |-> DateIso(requested_dates[i])])),
                Str(RetrieverTmp), bucket_source, Logged(io, "ingestor_run"),
                env.catalog, env.opendata, DateOf(env.now), env.catFail, env.dlFail)

\* line 188
RefsOf(collected_data_info, var) ==
    LET isvar(cdi) == cdi.variable = var
        ref(cdis) == Tup([i \in 1..Len(cdis) |-> cdis[i].ref])
    IN  ref(SelectSeq(collected_data_info, isvar))

\* line 174, on the answer h of the check
Listed(h, io) == [missing |-> h.missing, uris |-> h.uris, io |-> Logged(io, "s3_list")]

\* line 174
SourceUris(var, requested_dates, bucket_source, io) ==
    IF ~IsNone(bucket_source)
    THEN Listed(check_date_dataset_avaliability(var, requested_dates,
                                                bucket_source.val[1], io.s3), io)
    ELSE [missing |-> TRUE, uris |-> << >>, io |-> io]

\* lines 172-229: the loop over the variables.  q holds the arguments of
\* retrieve_icon2I_data and the requested dates, st the effects so far and env.
RECURSIVE ResolveVariables(_, _, _)

ResolveFail(exc, io, env) == [exc |-> exc, datasets |-> << >>, io |-> io, env |-> env]

ResolveKeep(var, dataset, rest) ==
    [exc |-> rest.exc,
     datasets |-> IF rest.exc # "" THEN << >>
                  ELSE <<[variable |-> var, dataset |-> dataset]>> \o rest.datasets,
     io |-> rest.io, env |-> rest.env]

\* lines 229 and the next turn of the loop, on the windowed dataset w
ResolveNext(todo, q, env, f, w) ==
    IF w.exc # "" THEN ResolveFail(w.exc, f.io, env)
    ELSE ResolveKeep(Head(todo), w.dataset,
                     ResolveVariables(Tail(todo), q, [io |-> f.io, env |-> env]))

\* lines 200-229, on the retrieved files f
ResolveOpen(todo, q, env, f) ==
    IF f.exc # "" THEN ResolveFail(f.exc, f.io, env)
    ELSE ResolveNext(todo, q, env, f,
                     OpenAndQuery(f.files, q.lat_range, q.lon_range,
                                  q.time_start, q.time_end, f.io))

\* a variant of ResolveIngested that leaves out the variable whose ingestion
\* failed and goes on with the next one
ResolveIngestedSkipFailed(todo, q, env, ing) ==
    IF ing.exc # "" THEN ResolveVariables(Tail(todo), q, [io |-> ing.io, env |-> env])
    ELSE ResolveOpen(todo, q, env,
                     FetchFiles(RefsOf(ing.outputs.collected_data_info, Head(todo)), ing.io))

\* lines 180-229, on the outcome ing of the ingestor run
ResolveIngested(todo, q, env, ing) ==
    IF ing.exc # "" THEN ResolveFail(ing.exc, ing.io, env)
    ELSE ResolveOpen(todo, q, env,
                     FetchFiles(RefsOf(ing.outputs.collected_data_info, Head(todo)), ing.io))

\* a variant of ResolveSource that runs the ingestor whatever was listed
ResolveSourceAlwaysIngest(todo, q, env, hit) ==
    ResolveIngested(todo, q, env,
                    Backfill(q.variable, q.requested_dates, q.bucket_source, hit.io, env))

\* lines 178-229, on the listed partitions hit
ResolveSource(todo, q, env, hit) ==
    IF hit.missing
    THEN ResolveIngested(todo, q, env,
                         Backfill(q.variable, q.requested_dates, q.bucket_source, hit.io, env))
    ELSE ResolveOpen(todo, q, env, FetchFiles(hit.uris, hit.io))

ResolveVariables(todo, q, st) ==
    IF todo = << >> THEN [exc |-> "", datasets |-> << >>, io |-> st.io, env |-> st.env]
    ELSE ResolveSource(todo, q, st.env,
                       SourceUris(Head(todo), q.requested_dates, q.bucket_source, st.io))

\* retrieve_icon2I_data(variable, lat_range, lon_range, time_start, time_end, bucket_source)
retrieve_icon2I_data(variable, lat_range, lon_range, time_start, time_end, bucket_source, io, env) ==
    ResolveVariables(variable,
                     [variable |-> variable, lat_range |-> lat_range,
                      lon_range |-> lon_range, time_start |-> time_start,
                      time_end |-> time_end, bucket_source |-> bucket_source,
                      requested_dates |-> RequestedDates(time_start, time_end)],
                     [io |-> io, env |-> env])

(* ------------------------------------------------------------------ *)
(* Raster Materializer                                                 *)
(* ------------------------------------------------------------------ *)
\* line 237: datetime.fromisoformat(str(ts)...).isoformat(timespec='seconds'),
\* a str
IsoString(t) == [type |-> "str", t |-> t]

\* x.isoformat(): only a datetime or a date has the method
IsoFormat(x) == IF x.type = "datetime" THEN [exc |-> "", s |-> IsoString(x.t)]
                ELSE [exc |-> "AttributeError", s |-> x]

SeqMin(c) == CHOOSE a \in Range(c) : \A b \in Range(c) : a <= b
SeqMax(c) == CHOOSE a \in Range(c) : \A b \in Range(c) : a >= b

\* the bands with their rows in reverse
FlipRows(data) ==
    Tup([k \in 1..Len(data) |->
        Tup([y \in 1..Len(data[k]) |-> data[k][Len(data[k]) + 1 - y]])])

\* dataset.sortby('lat', ascending=False)[variable].values
LatDescending(dataset) == FlipRows(SortBy(dataset).data)

\* lines 245-252; a quotient a / b is <<a, b>>
Geotransform(dataset) ==
    <<SeqMin(dataset.lon),
      <<SeqMax(dataset.lon) - SeqMin(dataset.lon), Len(dataset.lon)>>,
      0,
      SeqMax(dataset.lat),
      0,
      <<SeqMin(dataset.lat) - SeqMax(dataset.lat), Len(dataset.lat)>>>>

\* lines 239-243
RasterPath(variable, timestamps, out) ==
    IF IsNone(out)
    THEN Join(RetrieverTmp \o <<DATASET_NAME, variable>>,
              <<DATASET_NAME, variable, timestamps[1].t, "tif">>)
    ELSE out.val[1]

RasterFail(exc, io) == [exc |-> exc, path |-> Join(<< >>, << >>), io |-> io]

\* lines 255-269, on the band names of line 263
WriteRaster(variable, dataset, path, band_names, io) ==
    IF \E i \in 1..Len(band_names) : band_names[i].exc # ""
    THEN RasterFail("AttributeError", io)
    ELSE [exc |-> "",
          path |-> path,
          io |-> [Logged(io, "raster_write") EXCEPT
                     !.fs = Put(@, path,
                                [raster |->
                                    [variable |-> variable,
                                     geotransform |-> Geotransform(dataset),
                                     bands |-> LatDescending(dataset),
                                     band_names |-> Tup([i \in 1..Len(band_names) |->
                                                           band_names[i].s])]])]]

\* lines 239-269, on the timestamps of line 237
TimestampRaster(variable, dataset, out, io, timestamps) ==
    IF IsNone(out) /\ timestamps = << >> THEN RasterFail("IndexError", io)
    ELSE IF Len(dataset.lon) = 0 \/ Len(dataset.lat) = 0 THEN RasterFail("ValueError", io)
    ELSE WriteRaster(variable, dataset, RasterPath(variable, timestamps, out),
                     Tup([i \in 1..Len(timestamps) |-> IsoFormat(timestamps[i])]), io)

\* create_timestamp_raster(variable, dataset, out)
create_timestamp_raster(variable, dataset, out, io) ==
    TimestampRaster(variable, dataset, out, io,
                    Tup([i \in 1..Len(dataset.time) |-> IsoString(dataset.time[i])]))

(* ------------------------------------------------------------------ *)
(* Retriever: run                                                      *)
(* ------------------------------------------------------------------ *)
\* lines 333-350: one raster per resolved variable, uploaded when a
\* destination bucket is given
RECURSIVE MaterializeVariables(_, _, _, _)

MaterializeKeep(var, ref, path, rest) ==
    [exc |-> rest.exc,
     refs |-> IF rest.exc # "" THEN << >> ELSE <<[variable |-> var, ref |-> ref]>> \o rest.refs,
     rasters |-> IF rest.exc # "" THEN << >> ELSE <<path>> \o rest.rasters,
     io |-> rest.io]

\* lines 341-350, on the raster r written for the first of the datasets
MaterializeNext(variable_datasets, out, bucket_destination, r) ==
    IF r.exc # "" THEN [exc |-> r.exc, refs |-> << >>, rasters |-> << >>, io |-> r.io]
    ELSE IF ~IsNone(bucket_destination)
    THEN MaterializeKeep(Head(variable_datasets).variable,
                         Join(bucket_destination.val[1], r.path.name), r.path,
                         MaterializeVariables(
                             Tail(variable_datasets), out, bucket_destination,
                             [Logged(r.io, "s3_upload") EXCEPT
                                 !.s3 = s3_upload(@, Join(bucket_destination.val[1], r.path.name),
                                                  r.io.fs[r.path])]))
    ELSE MaterializeKeep(Head(variable_datasets).variable, r.path, r.path,
                         MaterializeVariables(Tail(variable_datasets), out,
                                              bucket_destination, r.io))

MaterializeVariables(variable_datasets, out, bucket_destination, io) ==
    IF variable_datasets = << >> THEN [exc |-> "", refs |-> << >>, rasters |-> << >>, io |-> io]
    ELSE MaterializeNext(variable_datasets, out, bucket_destination,
                         create_timestamp_raster(Head(variable_datasets).variable,
                                                 Head(variable_datasets).dataset, out, io))

\* lines 373-374: finally: filesystem.garbage_folders(self._tmp_data_folder)
RetrieverFinally(io) ==
    [Logged(io, "cleanup_retriever") EXCEPT !.fs = garbage_folders(@, RetrieverTmp)]

\* a variant of RetrieverResult whose cleanup is the last statement of the try
\* block instead of a finally clause
RetrieverResultNoFinally(cause, outputs, io) ==
    [exc |-> WrapException(cause), cause |-> cause, outputs |-> outputs,
     io |-> IF cause = "" THEN RetrieverFinally(io) ELSE io]

\* how run ends: exc is the status of the StatusException raised to the
\* caller ("" when the run returns), cause the exception that was wrapped,
\* outputs the value returned
RetrieverResult(cause, outputs, io) ==
    [exc |-> WrapException(cause), cause |-> cause,
     outputs |-> outputs, io |-> RetrieverFinally(io)]

NoOutputs == [kind |-> "none", status |-> "", collected_data_info |-> << >>]

\* lines 354-368, on the rasters m
RetrieverReturn(validated_args, m) ==
    IF m.exc # "" THEN RetrieverResult(m.exc, NoOutputs, m.io)
    ELSE IF ~IsNone(validated_args.bucket_destination) \/ ~IsNone(validated_args.out)
    THEN RetrieverResult("", [kind |-> "dict", status |-> "OK",
                              collected_data_info |-> m.refs], m.io)
    ELSE IF m.rasters = << >> THEN RetrieverResult("UnboundLocalError", NoOutputs, m.io)
    ELSE RetrieverResult("", [kind |-> "path", status |-> "",
                              collected_data_info |->
                                  <<[variable |-> m.refs[Len(m.refs)].variable,
                                     ref |-> m.rasters[Len(m.rasters)]]>>], m.io)

\* lines 331-368, on the resolved datasets rd
RetrieverMaterialize(validated_args, rd) ==
    IF rd.exc # "" THEN RetrieverResult(rd.exc, NoOutputs, rd.io)
    ELSE RetrieverReturn(validated_args,
                         MaterializeVariables(rd.datasets, validated_args.out,
                                              validated_args.bucket_destination, rd.io))

\* lines 311-368, on the validated arguments
RetrieverResolve(validated_args, env) ==
    IF validated_args.exc # ""
    THEN RetrieverResult(validated_args.exc, NoOutputs, validated_args.io)
    ELSE RetrieverMaterialize(validated_args,
                              retrieve_icon2I_data(validated_args.variable,
                                                   validated_args.lat_range,
                                                   validated_args.long_range,
                                                   validated_args.time_start,
                                                   validated_args.time_end,
                                                   validated_args.bucket_source,
                                                   validated_args.io, env))

\* _ICON2IRetriever.run(variable, lat_range, long_range, time_range, out_format,
\*                      bucket_source, bucket_destination, out)
RetrieverRun(kwargs, io, env) ==
    RetrieverResolve(RetrieverValidation(kwargs, io, env.now), env)

(* ------------------------------------------------------------------ *)
(* The surroundings: clock and remote listing                          *)
(* ------------------------------------------------------------------ *)
At(d, h, m) == d * MinutesPerDay + h * MinutesPerHour + m

\* the publisher issues a run every 12 hours, each file holding the full
\* horizon of hourly steps
RunPeriod == 12 * MinutesPerHour

StartNow == At(2, 6, 0)

Filename(run) == <<"grib", DateOf(run), run % MinutesPerDay>>

Entry(run) == [date |-> DateOf(run), run |-> run % MinutesPerDay, filename |-> Filename(run)]

LatestRun(clock) == clock - (clock % RunPeriod)

EmptyMap == [x \in {} |-> x]

(* ------------------------------------------------------------------ *)
(* Requests                                                            *)
(* ------------------------------------------------------------------ *)
BucketA == <<"s3://", "A">>
BucketB == <<"s3://", "B">>
NotABucket == <<"http://", "A">>
OutDir == <<"file", "out">>
OutTif == Join(OutDir, <<"result", "tif">>)
OutJson == Join(OutDir, <<"result", "json">>)

RunString(t) == [iso |-> TRUE, t |-> t]
NotIso == [iso |-> FALSE, t |-> 0]

TimeString(t, sub) == [iso |-> TRUE, t |-> t, sub |-> sub]
NotIsoTime == [iso |-> FALSE, t |-> 0, sub |-> 0]

BaseIngest ==
    [variable |-> Str("total_precipitation"),
     forecast_run |-> List(<<RunString(At(2, 0, 0))>>),
     out_dir |-> None, bucket_destination |-> Str(BucketA)]

\* well-formed ingestion requests
GoodIngestRequests ==
    {[BaseIngest EXCEPT !.forecast_run = f, !.bucket_destination = b] :
        f \in {None, List(<<RunString(At(2, 0, 0))>>),
               List(<<RunString(At(2, 12, 0)), RunString(At(3, 0, 0))>>)},
        b \in {None, Str(BucketA)}}
    \cup {[BaseIngest EXCEPT !.variable = None,
                             !.forecast_run = Str(RunString(At(2, 12, 0)))],
          [BaseIngest EXCEPT !.out_dir = Str(OutDir), !.bucket_destination = None]}

\* malformed ingestion requests
BadIngestRequests ==
    {[BaseIngest EXCEPT !.variable = v] : v \in {Str("bogus"), Other}}
    \cup {[BaseIngest EXCEPT !.forecast_run = f] :
            f \in {Str(RunString(At(2, 6, 0))), Str(RunString(At(2, 0, 30))), Str(NotIso), Other,
                   List(<<RunString(At(2, 0, 0)), NotIso>>)}}
    \cup {[BaseIngest EXCEPT !.forecast_run = f, !.bucket_destination = b] :
            f \in {None, List(<<RunString(At(2, 0, 0))>>)},
            b \in {Str(NotABucket), Other}}
    \cup {[BaseIngest EXCEPT !.out_dir = Other]}

BaseRetrieve ==
    [variable |-> Str("total_precipitation"), lat_range |-> None, long_range |-> None,
     time_range |-> List(<<TimeString(At(2, 0, 0), 0), TimeString(At(2, 6, 0), 0)>>),
     out_format |-> None, bucket_source |-> None, bucket_destination |-> None,
     out |-> None]

TimeRanges ==
    {List(<<TimeString(At(2, 0, 0), 0), TimeString(At(2, 6, 0), 0)>>),
     List(<<TimeString(At(2, 23, 0), 0), TimeString(At(3, 1, 0), 0)>>),
     List(<<TimeString(At(2, 0, 0), 0), TimeString(At(3, 5, 0), 0)>>),
     Str(TimeString(At(3, 0, 7), 1))}

\* well-formed retrieval requests
GoodRetrieveRequests ==
    {[BaseRetrieve EXCEPT !.variable = v, !.time_range = t, !.bucket_source = b] :
        v \in {Str("total_precipitation"), List(<<"total_precipitation", "temperature">>)},
        t \in TimeRanges,
        b \in {None, Str(BucketA)}}
    \cup {[BaseRetrieve EXCEPT !.bucket_destination = Str(BucketB)],
          [BaseRetrieve EXCEPT !.bucket_source = Str(BucketA), !.out = Str(OutTif)],
          [BaseRetrieve EXCEPT !.bucket_source = Str(BucketA), !.out_format = Str("tif"),
                               !.lat_range = List(<<44, 44>>),
                               !.long_range = List(<<11, 12>>)]}

\* malformed retrieval requests
BadRetrieveRequests ==
    {[BaseRetrieve EXCEPT !.time_range = t] :
        t \in {None, Str(NotIsoTime), Other,
               List(<<TimeString(At(2, 6, 0), 0), TimeString(At(2, 0, 0), 0)>>),
               List(<<TimeString(At(2, 0, 0), 0), NotIsoTime>>),
               List(<<TimeString(At(0, 0, 0), 0), TimeString(At(0, 1, 0), 0)>>)}}
    \cup {[BaseRetrieve EXCEPT !.variable = v] : v \in {Str("bogus"), Other}}
    \cup {[BaseRetrieve EXCEPT !.lat_range = r, !.bucket_source = b] :
            r \in {List(<<91, 92>>), List(<<-91, 0>>), List(<<0, 91>>), List(<<45, 44>>),
                   List(<<44>>), Other},
            b \in {None, Str(BucketA)}}
    \cup {[BaseRetrieve EXCEPT !.long_range = r, !.bucket_source = b] :
            r \in {List(<<181, 182>>), List(<<-181, 0>>), List(<<0, 181>>), List(<<12, 11>>),
                   List(<<11>>), Other},
            b \in {None, Str(BucketA)}}
    \cup {[BaseRetrieve EXCEPT !.out_format = f] : f \in {Str("geojson"), Other}}
    \cup {[BaseRetrieve EXCEPT !.bucket_source = b] : b \in {Str(NotABucket), Other}}
    \cup {[BaseRetrieve EXCEPT !.bucket_destination = b] : b \in {Str(NotABucket), Other}}
    \cup {[BaseRetrieve EXCEPT !.out = o, !.bucket_source = Str(BucketA)] :
            o \in {Str(OutJson), Other}}

\* the failures of the remote calls a run may meet: the listing request that
\* is number catFail of the run, the download of the files in dlFail
NoFailure == [catFail |-> 0, dlFail |-> {}]

Failures ==
    {NoFailure, [catFail |-> 1, dlFail |-> {}], [catFail |-> 2, dlFail |-> {}],
     [catFail |-> 0, dlFail |-> {Filename(At(2, 0, 0))}]}

\* the requests of the pipeline's behaviours: the well-formed ones, some of
\* them meeting a failure, and one malformed request of each kind
FailingRequests ==
    {BaseIngest, [BaseIngest EXCEPT !.forecast_run = None],
     [BaseRetrieve EXCEPT !.bucket_source = Str(BucketA)], BaseRetrieve,
     [BaseRetrieve EXCEPT !.variable = List(<<"total_precipitation", "temperature">>),
                          !.bucket_source = Str(BucketA)]}

Attempts(good, bad) ==
    {a \in [req : good \cup bad, f : Failures] :
        a.f = NoFailure \/ a.req \in FailingRequests}

IngestRequests ==
    Attempts(GoodIngestRequests,
             {[BaseIngest EXCEPT !.forecast_run = Str(RunString(At(2, 6, 0)))],
              [BaseIngest EXCEPT !.bucket_destination = Str(NotABucket)]})

RetrieveRequests ==
    Attempts(GoodRetrieveRequests,
             {[BaseRetrieve EXCEPT !.lat_range = List(<<91, 92>>)],
              [BaseRetrieve EXCEPT !.time_range = None]})

(* ------------------------------------------------------------------ *)
(* State machine                                                       *)
(* ------------------------------------------------------------------ *)
NoRun ==
    [op |-> "none", kwargs |-> EmptyMap, exc |-> "", cause |-> "",
     outputs |-> [kind |-> "none", status |-> "", collected_data_info |-> << >>],
     log |-> << >>, pre |-> {}, clock |-> 0, listing |-> << >>, f |-> NoFailure,
     paths |-> << >>, rerun |-> FALSE]

Nothing == [none |-> TRUE]

\* the pipeline after the construction of its components
InitPipeline ==
    /\ now = StartNow
    /\ catalog = <<Entry(LatestRun(StartNow))>>
    /\ opendata = Put(EmptyMap, Filename(LatestRun(StartNow)),
                      [run |-> LatestRun(StartNow), nsteps |-> LastRunSteps])
    /\ s3 = EmptyMap
    /\ fs = EmptyMap
    /\ last = NoRun
    /\ nruns = 0

Init ==
    /\ InitPipeline
    /\ arg = Nothing
    /\ res = Nothing

\* 12 hours pass and the publisher lists the new run, first or last in the
\* listing; a full listing loses its oldest run
Tick ==
    \E front \in BOOLEAN :
        LET run == LatestRun(now + RunPeriod)
            isold(e) == \A i \in 1..Len(catalog) : ForecastRunOf(e) <= ForecastRunOf(catalog[i])
            notold(e) == ~isold(e)
            kept == IF Len(catalog) < MaxCatalog THEN catalog ELSE SelectSeq(catalog, notold)
        IN  /\ now < StartNow + MaxTicks * RunPeriod
            /\ now' = now + RunPeriod
            /\ catalog' = IF front THEN <<Entry(run)>> \o kept ELSE Append(kept, Entry(run))
            /\ opendata' = Put(opendata, Filename(run), [run |-> run, nsteps |-> LastRunSteps])
            /\ UNCHANGED <<s3, fs, last, nruns, arg, res>>

Env(f) ==
    [catalog |-> catalog, opendata |-> opendata, now |-> now,
     catFail |-> f.catFail, dlFail |-> f.dlFail]

\* a run of the ingestor repeats the one before it: same destination, same
\* variables, same files assembled
Repeats(r, req) ==
    /\ last.op = "ingest" /\ last.exc = "" /\ r.exc = ""
    /\ last.kwargs.bucket_destination = req.bucket_destination
    /\ last.kwargs.variable = req.variable
    /\ last.paths = r.paths

\* a top-level run of the ingestor (main.run_icon2i_ingestor builds the
\* _ICON2IIngestor and calls run)
IngestFrom(requests, maxruns) ==
    /\ nruns < maxruns
    /\ \E a \in requests :
        \E r \in {IngestorRun(a.req.variable, a.req.forecast_run, a.req.out_dir,
                             a.req.bucket_destination, Io(fs, s3, << >>),
                             catalog, opendata, DateOf(now), a.f.catFail, a.f.dlFail)} :
            /\ nruns' = nruns + 1
            /\ fs' = r.io.fs
            /\ s3' = r.io.s3
            /\ last' = [op |-> "ingest", kwargs |-> a.req, exc |-> r.exc, cause |-> r.cause,
                        outputs |-> r.outputs, log |-> r.io.log, pre |-> DOMAIN s3,
                        clock |-> now, listing |-> catalog, f |-> a.f,
                        paths |-> r.paths, rerun |-> Repeats(r, a.req)]
            /\ UNCHANGED <<now, catalog, opendata, arg, res>>

\* a top-level run of the retriever (main.run_icon2i_retriever builds the
\* _ICON2IRetriever and calls run)
RetrieveFrom(requests, maxruns) ==
    /\ nruns < maxruns
    /\ \E a \in requests :
        \E r \in {RetrieverRun(a.req, Io(fs, s3, << >>), Env(a.f))} :
            /\ nruns' = nruns + 1
            /\ fs' = r.io.fs
            /\ s3' = r.io.s3
            /\ last' = [op |-> "retrieve", kwargs |-> a.req, exc |-> r.exc, cause |-> r.cause,
                        outputs |-> r.outputs, log |-> r.io.log, pre |-> DOMAIN s3,
                        clock |-> now, listing |-> catalog, f |-> a.f,
                        paths |-> << >>, rerun |-> FALSE]
            /\ UNCHANGED <<now, catalog, opendata, arg, res>>

Ingest == IngestFrom(IngestRequests, MaxRuns)

Retrieve == RetrieveFrom(RetrieveRequests, MaxRuns)

Next == Tick \/ Ingest \/ Retrieve

Spec == Init /\ [][Next]_vars

\* one top-level run on any request, well-formed or malformed
AnyIngestRequests == Attempts(GoodIngestRequests, BadIngestRequests)

AnyRetrieveRequests == Attempts(GoodRetrieveRequests, BadRetrieveRequests)

IngestAny == IngestFrom(AnyIngestRequests, MaxRequestRuns)

RetrieveAny == RetrieveFrom(AnyRetrieveRequests, MaxRequestRuns)

NextRequests == Tick \/ IngestAny \/ RetrieveAny

SpecRequests == Init /\ [][NextRequests]_vars

(* ------------------------------------------------------------------ *)
(* Single functions of the pipeline on drawn arguments                 *)
(* ------------------------------------------------------------------ *)
MaxWindowHours == 26   \* hours a drawn window spans at most
MaxSeriesSteps == 26   \* hourly steps of a drawn series
MaxFileSteps == 3      \* messages of a drawn file
MaxBatchRuns == 2      \* runs of a drawn listing
MaxQuerySteps == 14    \* steps of the last file of a series to window
MaxBatchFiles == 2     \* files of a drawn batch
MaxHorizonSteps == 74  \* steps per variable of a drawn file of a batch

\* windows from some minutes of day 2 on, of whole hours
WindowStarts ==
    {At(2, 0, 0), At(2, 0, 7), At(2, 12, 0), At(2, 23, 0), At(2, 23, 58), At(3, 0, 0)}

WindowArgs ==
    {[window |-> [time_range |-> List(<<TimeString(s, 0),
                                        TimeString(s + k * MinutesPerHour, 0)>>),
                  clock |-> StartNow]] :
        s \in WindowStarts, k \in 0..MaxWindowHours}

\* windows given by their start alone, and windows within one minute, with
\* and without seconds
SingleWindowArgs ==
    {[window |-> [time_range |-> Str(TimeString(s, sub)), clock |-> StartNow]] :
        s \in WindowStarts, sub \in {0, 1}}
    \cup
    {[window |-> [time_range |-> List(<<TimeString(s, 0), TimeString(s + k, sub)>>),
                  clock |-> StartNow]] :
        s \in WindowStarts, k \in {0, 3}, sub \in {1, 2}}

\* an assembled series of n hourly steps from t0 on a grid of one cell
Series(t0, n) ==
    [time |-> Tup([i \in 1..n |-> t0 + (i - 1) * MinutesPerHour]),
     lat |-> <<44>>,
     lon |-> <<11>>,
     data |-> Tup([i \in 1..n |-> <<<<Num(i % 3)>>>>])]

PartitionArgs ==
    {[partition |-> [dataset |-> Series(t0, n), today |-> d]] :
        t0 \in {At(2, 0, 0), At(2, 12, 0)}, n \in 1..MaxSeriesSteps, d \in 1..4}

\* the messages of a file of one variable whose steps hold the values vs
StepMessages(name, run, vs) ==
    Tup([i \in 1..Len(vs) |->
        [name |-> name, validDate |-> run + (i - 1) * MinutesPerHour,
         values |-> <<<<Num(vs[i])>>>>, lats |-> <<44>>, lons |-> <<11>>]])

StepValues == {0, 2, 5, Sentinel}

StepFiles ==
    UNION {[1..n -> StepValues] : n \in 1..MaxFileSteps}

AssembleArgs ==
    {[assemble |-> [grib_dss |-> <<StepMessages("Total Precipitation", At(2, 0, 0), Tup(vs))>>,
                    variable |-> "total_precipitation"]] : vs \in StepFiles}
    \cup
    {[assemble |-> [grib_dss |-> <<StepMessages("Total Precipitation", At(2, 0, 0), <<v>>),
                                   StepMessages("Total Precipitation", At(2, 12, 0), Tup(vs))>>,
                    variable |-> "total_precipitation"]] :
        v \in StepValues, vs \in StepFiles}

\* files of one run whose steps hold temperatures, some below zero
TemperatureValues == {-3, 0, 4, Sentinel}

TemperatureFiles ==
    UNION {[1..n -> TemperatureValues] : n \in 1..MaxFileSteps}

TemperatureArgs ==
    {[assemble |-> [grib_dss |-> <<StepMessages("2 metre temperature", At(2, 0, 0), Tup(vs))>>,
                    variable |-> "temperature"]] : vs \in TemperatureFiles}

\* the file of a run that lacks the step of its second hour
GappedFile(run, nsteps) ==
    LET present(msg) == msg.validDate # run + MinutesPerHour
    IN  IF nsteps = 0 THEN << >> ELSE SelectSeq(GribFile(run, nsteps + 1), present)

\* the steps per variable a file of a batch holds: none, fewer than, exactly
\* and more than the steps taken of a file
FileStepCounts == {0, 1, FirstRunSteps, FirstRunSteps + 1, LastRunSteps, MaxHorizonSteps}

\* batches of files of successive runs, oldest first, each holding the
\* messages of all the variables, whole or with a step missing
FileBatches ==
    UNION {[1..k -> FileStepCounts] : k \in 1..MaxBatchFiles}

FilesArgs ==
    {[files |-> [grib_dss |-> Tup([j \in DOMAIN ns |->
                                     IF gap THEN GappedFile(At(2, 0, 0) + (j - 1) * RunPeriod, ns[j])
                                     ELSE GribFile(At(2, 0, 0) + (j - 1) * RunPeriod, ns[j])]),
                 variable |-> v]] :
        ns \in FileBatches, gap \in BOOLEAN, v \in {"total_precipitation", "temperature"}}
    \cup
    {[files |-> [grib_dss |-> <<StepMessages("2 metre temperature", At(2, 0, 0), <<4, 0>>)>>,
                 variable |-> "total_precipitation"]]}

\* retriever lines 311-315 and 169: the dates required for the validated window
ResolvedWindow(tr) ==
    [exc |-> tr.exc, time_start |-> tr.time_start, time_end |-> tr.time_end,
     requested_dates |-> IF tr.exc # "" THEN << >>
                         ELSE RequestedDates(tr.time_start, tr.time_end)]

\* the listings of some of the 12-hourly runs from day 2 00:00 on, each run
\* once, in any order
BatchRuns == {At(2, 0, 0) + k * RunPeriod : k \in 0..(MaxBatchRuns - 1)}

BatchListings ==
    {s \in UNION {[1..n -> BatchRuns] : n \in 1..MaxBatchRuns} :
        \A i, j \in DOMAIN s : s[i] = s[j] => i = j}

BatchArgs ==
    {[batch |-> [listing |-> Tup([i \in DOMAIN s |-> Entry(s[i])]),
                 variable |-> "total_precipitation"]] : s \in BatchListings}

\* the files the publisher holds for the runs of a listing
PublishedFiles(listing) ==
    [n \in {listing[i].filename : i \in 1..Len(listing)} |->
        [run |-> n[2] * MinutesPerDay + n[3], nsteps |-> LastRunSteps]]

\* ingestor line 261: [pygrib.open(gf) for gf in icon2I_file_paths]
OpenFiles(dl) == Tup([i \in 1..Len(dl.paths) |-> pygrib_open(dl.io.fs, dl.paths[i])])

\* ingestor lines 255-264: the series of a variable assembled from the files
\* of all the runs of a listing, downloaded in the order the listing gives
BatchSeries(listing, variable) ==
    icon_2I_time_concat(
        OpenFiles(download_icon2I_data(AvaliableRuns(listing), Io(EmptyMap, EmptyMap, << >>),
                                       listing, PublishedFiles(listing), 0, {})),
        variable)

\* windowed series of one variable to materialize, with and without an
\* explicit output path
MaterializeArgs ==
    {[materialize |-> [variable |-> "total_precipitation",
                       dataset |-> Series(t0, n), out |-> o]] :
        t0 \in {At(2, 0, 0), At(2, 22, 0)}, n \in 1..MaxSeriesSteps, o \in {None, Str(OutTif)}}

\* retriever lines 332-350 once every raster has been written: the raster of
\* each variable and the reference kept for it
WrittenRasters(variable, out, bucket_destination) ==
    LET path(i) == RasterPath(variable[i], <<IsoString(At(2, 0, 0))>>, out)
    IN  [exc |-> "",
         refs |-> Tup([i \in 1..Len(variable) |->
                     [variable |-> variable[i],
                      ref |-> IF ~IsNone(bucket_destination)
                              THEN Join(bucket_destination.val[1], path(i).name)
                              ELSE path(i)]]),
         rasters |-> Tup([i \in 1..Len(variable) |-> path(i)]),
         io |-> Io(EmptyMap, EmptyMap, << >>)]

\* retriever lines 255-269 and 343-345 once every raster has been written: the
\* raster files in the local files, and their uploads in the bucket
StoredRasters(w, bucket_destination) ==
    [w EXCEPT !.io = Io([p \in Range(w.rasters) |-> [raster |-> "tif"]],
                        IF IsNone(bucket_destination) THEN EmptyMap
                        ELSE [u \in {w.refs[i].ref : i \in 1..Len(w.refs)} |-> [raster |-> "tif"]],
                        << >>)]

\* validated requests of one and of all the variables, with every
\* combination of destinations
ReportArgs ==
    {[report |-> [variable |-> v, out |-> o, bucket_destination |-> b]] :
        v \in {<<"total_precipitation">>, <<"temperature">>, AllVariables},
        o \in {None, Str(OutTif)}, b \in {None, Str(BucketB)}}

\* retriever lines 200-207: the merged and sorted series of the partitions
\* that the ingestion of the files of some runs stored
MergedSeries(grib_dss, variable) == SortBy(icon_2I_time_concat(grib_dss, variable).ds)

\* series of one run of a few steps, and of two runs listed newest first
\* whose steps overlap
QuerySeries ==
    {MergedSeries(<<GribFile(At(2, 0, 0), n)>>, "temperature") : n \in {1, 3, MaxQuerySteps}}
    \cup {MergedSeries(<<GribFile(At(2, 12, 0), FirstRunSteps),
                         GribFile(At(2, 0, 0), MaxQuerySteps)>>, "total_precipitation")}

\* validated ranges around the grid: all of it, one row, a part, none of it
QueryLatRanges == {None, List(<<44, 44>>), List(<<44, 45>>), List(<<43, 44>>), List(<<46, 47>>)}

QueryLonRanges == {None, List(<<11, 11>>), List(<<12, 13>>), List(<<10, 12>>)}

\* validated windows: on and off the hourly steps, of zero or more hours
QueryWindows ==
    {<<lo, lo + k * MinutesPerHour>> :
        lo \in {At(2, 0, 0), At(2, 1, 0), At(2, 1, 5), At(2, 12, 0)}, k \in {0, 1, 2, 13}}

QueryArgs ==
    {[query |-> [dataset |-> ds, lat_range |-> la, lon_range |-> lo, time_range |-> w]] :
        ds \in QuerySeries, la \in QueryLatRanges, lo \in QueryLonRanges, w \in QueryWindows}

DeliverArgs ==
    {[deliver |-> [variable |-> v, out |-> o, bucket_destination |-> b]] :
        v \in {<<"total_precipitation">>, <<"temperature">>, AllVariables},
        o \in {None, Str(OutTif)}, b \in {None, Str(BucketB)}}

InitFunctions ==
    /\ InitPipeline
    /\ arg \in WindowArgs \cup PartitionArgs \cup AssembleArgs \cup BatchArgs
               \cup MaterializeArgs \cup ReportArgs \cup QueryArgs \cup TemperatureArgs
               \cup FilesArgs \cup SingleWindowArgs \cup DeliverArgs
    /\ res = Nothing

\* argument_validation's window handed to retrieve_icon2I_data
ResolveWindow ==
    /\ "window" \in DOMAIN arg
    /\ res = Nothing
    /\ res' = ResolvedWindow(ValidateTimeRange(arg.window.time_range, arg.window.clock))
    /\ UNCHANGED <<now, catalog, opendata, s3, fs, last, nruns, arg>>

\* get_single_date_dataset on a series
Partition ==
    /\ "partition" \in DOMAIN arg
    /\ res = Nothing
    /\ res' = [date_datasets |->
                  get_single_date_dataset(arg.partition.dataset, arg.partition.today)]
    /\ UNCHANGED <<now, catalog, opendata, s3, fs, last, nruns, arg>>

\* icon_2I_time_concat on the decoded files of a batch
Assemble ==
    /\ "assemble" \in DOMAIN arg
    /\ res = Nothing
    /\ res' = [dss |-> FileDatasets(arg.assemble.grib_dss, arg.assemble.variable),
               timeserie_dataset |->
                   icon_2I_time_concat(arg.assemble.grib_dss, arg.assemble.variable)]
    /\ UNCHANGED <<now, catalog, opendata, s3, fs, last, nruns, arg>>

\* download_icon2I_data and icon_2I_time_concat on the runs of a listing
AssembleBatch ==
    /\ "batch" \in DOMAIN arg
    /\ res = Nothing
    /\ res' = [series |-> BatchSeries(arg.batch.listing, arg.batch.variable)]
    /\ UNCHANGED <<now, catalog, opendata, s3, fs, last, nruns, arg>>

\* create_timestamp_raster on a windowed series
Materialize ==
    /\ "materialize" \in DOMAIN arg
    /\ res = Nothing
    /\ res' = [raster |-> create_timestamp_raster(arg.materialize.variable,
                                                  arg.materialize.dataset,
                                                  arg.materialize.out,
                                                  Io(EmptyMap, EmptyMap, << >>))]
    /\ UNCHANGED <<now, catalog, opendata, s3, fs, last, nruns, arg>>

\* the outputs of run (retriever lines 354-368) once the rasters are written
Report ==
    /\ "report" \in DOMAIN arg
    /\ res = Nothing
    /\ res' = [written |-> WrittenRasters(arg.report.variable, arg.report.out,
                                          arg.report.bucket_destination),
               result |-> RetrieverReturn(arg.report,
                                          WrittenRasters(arg.report.variable, arg.report.out,
                                                         arg.report.bucket_destination))]
    /\ UNCHANGED <<now, catalog, opendata, s3, fs, last, nruns, arg>>

\* dataset_query on a merged series, and again on what it returned
Query ==
    /\ "query" \in DOMAIN arg
    /\ res = Nothing
    /\ \E w \in {dataset_query(arg.query.dataset, arg.query.lat_range,
                                arg.query.lon_range, arg.query.time_range)} :
           res' = [windowed |-> w,
                   rewindowed |-> dataset_query(w, arg.query.lat_range,
                                                arg.query.lon_range, arg.query.time_range)]
    /\ UNCHANGED <<now, catalog, opendata, s3, fs, last, nruns, arg>>

\* icon_2I_time_concat on a batch of whole files: the dataset of each file
\* (lines 150-184) and the series (lines 186-193)
AssembleFiles ==
    /\ "files" \in DOMAIN arg
    /\ res = Nothing
    /\ res' = [file_datasets |-> FileDatasets(arg.files.grib_dss, arg.files.variable),
               assembled |-> icon_2I_time_concat(arg.files.grib_dss, arg.files.variable)]
    /\ UNCHANGED <<now, catalog, opendata, s3, fs, last, nruns, arg>>

\* the end of run (retriever lines 354-375) once the rasters are written and
\* uploaded: the outputs and the cleanup of the workspace
Deliver ==
    /\ "deliver" \in DOMAIN arg
    /\ res = Nothing
    /\ res' = [delivered |->
                  RetrieverReturn(arg.deliver,
                                  StoredRasters(WrittenRasters(arg.deliver.variable,
                                                               arg.deliver.out,
                                                               arg.deliver.bucket_destination),
                                                arg.deliver.bucket_destination))]
    /\ UNCHANGED <<now, catalog, opendata, s3, fs, last, nruns, arg>>

NextFunctions ==
    \/ ResolveWindow \/ Partition \/ Assemble \/ AssembleBatch \/ Materialize \/ Report
    \/ Query \/ AssembleFiles \/ Deliver

SpecFunctions == InitFunctions /\ [][NextFunctions]_vars

(* ------------------------------------------------------------------ *)
(* Properties                                                          *)
(* ------------------------------------------------------------------ *)
\* the events of the log that are calls to the network or to the storage
RemoteCalls == {"catalog", "download", "s3_list", "s3_upload", "s3_download"}

Calls(log, events) == {i \in 1..Len(log) : log[i] \in events}

\* the arguments of the latest retrieval once validated
LastRetrieveArgs ==
    RetrieverValidation(last.kwargs, Io(EmptyMap, EmptyMap, << >>), last.clock)

\* the key of the partition of a variable and a date in a bucket
KeyOf(bucket, variable, date) == Join(bucket, <<DATASET_NAME, variable, date, "nc">>)

\* the latest run is a retrieval with a source bucket that listed, before the
\* run, the partition of every requested variable and required date
FullCacheHit ==
    /\ last.op = "retrieve"
    /\ LastRetrieveArgs.exc = ""
    /\ ~IsNone(LastRetrieveArgs.bucket_source)
    /\ \A v \in Range(LastRetrieveArgs.variable) :
           \A d \in Range(RequestedDates(LastRetrieveArgs.time_start,
                                         LastRetrieveArgs.time_end)) :
               KeyOf(LastRetrieveArgs.bucket_source.val[1], v, d) \in last.pre

\* C1: a retrieval whose source bucket lists the partition of every requested
\* variable and required date performs no ingestion: the catalog listing and
\* the raw-file download are never invoked during the call
C1_NoIngestionOnCacheHit ==
    FullCacheHit => Calls(last.log, {"ingestor_run", "catalog", "download"}) = {}

\* a retrieval served from the bucket: the partitions were listed and fetched
C1_Witness ==
    /\ FullCacheHit
    /\ Calls(last.log, {"s3_list"}) # {}
    /\ Calls(last.log, {"s3_download"}) # {}

\* the midnight run of every date the window touches is in the listing
WindowPublished ==
    \A d \in DateOf(LastRetrieveArgs.time_start)..DateOf(LastRetrieveArgs.time_end) :
        \E i \in 1..Len(last.listing) : ForecastRunOf(last.listing[i]) = d * MinutesPerDay

\* C2: a valid single-variable retrieval with no bucket configured, whose
\* remote calls all succeed, runs the ingestion, reads the partitions it
\* produced and completes with the raster of the window
C2_NoBucketRetrievalCompletes ==
    (/\ last.op = "retrieve"
     /\ last.f = NoFailure
     /\ LastRetrieveArgs.exc = ""
     /\ Len(LastRetrieveArgs.variable) = 1
     /\ IsNone(LastRetrieveArgs.bucket_source)
     /\ IsNone(LastRetrieveArgs.bucket_destination)
     /\ WindowPublished)
    => /\ Calls(last.log, {"ingestor_run"}) # {}
       /\ last.exc = ""
       /\ Calls(last.log, {"raster_write"}) # {}

\* C3: for every validated window [timeStart, timeEnd] the dates the resolver
\* requires are exactly the calendar dates that hold an instant of the window
C3_RequiredDatesAreCalendarDates ==
    ("requested_dates" \in DOMAIN res /\ res.exc = "")
    => Range(res.requested_dates) = DateOf(res.time_start)..DateOf(res.time_end)

\* a range of two numbers with an element outside [-lim, lim] or the first
\* above the second
OutOfRange(r, lim) ==
    /\ r.kind = "list"
    /\ Len(r.val) = 2
    /\ \/ \E i \in 1..2 : r.val[i] < -lim \/ r.val[i] > lim
       \/ r.val[1] > r.val[2]

\* C4: a retrieval whose lat_range or long_range has an element out of range,
\* or its first element above its second, ends with status INVALID as the
\* caller of the top-level run observes it
C4_BadRangeIsInvalid ==
    (/\ last.op = "retrieve"
     /\ \/ OutOfRange(last.kwargs.lat_range, 90)
        \/ OutOfRange(last.kwargs.long_range, 180))
    => last.exc = "INVALID"

\* C5: a run that argument validation rejects has made no call to the
\* network or to the storage
C5_ValidationBeforeRemoteCalls ==
    (last.op \in {"ingest", "retrieve"} /\ last.cause = "INVALID")
    => Calls(last.log, RemoteCalls) = {}

\* the cleanup event of the component of the latest top-level run
CleanupOf(op) == IF op = "ingest" THEN "cleanup_ingestor" ELSE "cleanup_retriever"

\* C6: on every exit path of a top-level run of the ingestor or the retriever
\* the workspace cleanup of that component is executed exactly once, and it
\* is the last thing the run does
C6_CleanupExactlyOnce ==
    last.op \in {"ingest", "retrieve"}
    => /\ Cardinality(Calls(last.log, {CleanupOf(last.op)})) = 1
       /\ last.log[Len(last.log)] = CleanupOf(last.op)

\* a retrieval that raised after its ingestion had run, and was cleaned up
C6_Witness ==
    /\ last.op = "retrieve"
    /\ last.cause \notin {"", "INVALID"}
    /\ Calls(last.log, {"ingestor_run"}) # {}
    /\ Calls(last.log, {"cleanup_retriever"}) = {Len(last.log)}

\* the steps of a series that fall on a date
StepsOn(dataset, d) ==
    Cardinality({i \in 1..Len(dataset.time) : DateOf(dataset.time[i]) = d})

DatesOf(dataset) == {DateOf(dataset.time[i]) : i \in 1..Len(dataset.time)}

EmittedDates(date_datasets) == {date_datasets[k].dt : k \in 1..Len(date_datasets)}

\* C7: the partitioner emits the partition of a date if and only if it is not
\* the case that the date is strictly before today and the partition has
\* exactly 12 timesteps
C7_EmitsUnlessStaleHalfDay ==
    "date_datasets" \in DOMAIN res
    => \A d \in DatesOf(arg.partition.dataset) :
           d \in EmittedDates(res.date_datasets)
           <=> ~(d < arg.partition.today /\ StepsOn(arg.partition.dataset, d) = 12)

\* a past half day discarded next to a half day that is not past, kept
C7_Witness ==
    /\ "date_datasets" \in DOMAIN res
    /\ \E d \in DatesOf(arg.partition.dataset) :
           /\ d < arg.partition.today
           /\ StepsOn(arg.partition.dataset, d) = 12
           /\ d \notin EmittedDates(res.date_datasets)
    /\ \E d \in EmittedDates(res.date_datasets) :
           StepsOn(arg.partition.dataset, d) = 12

\* the value a message holds in a cell, the sentinel read as NaN
Masked(msg, y, x) == MaskSentinel(msg.values[y][x])

\* the cells of a grid
Cells(g) == {<<y, x>> : y \in 1..Len(g), x \in 1..Len(g[1])}

\* the data of a file are the left-inclusive first difference of its steps
FirstDifference(A, D) ==
    /\ Len(D) = Len(A)
    /\ \A c \in Cells(D[1]) : D[1][c[1]][c[2]] = Masked(A[1], c[1], c[2])
    /\ \A i \in 2..Len(A) :
           \A c \in Cells(D[i]) :
               D[i][c[1]][c[2]] = Sub(Masked(A[i], c[1], c[2]), Masked(A[i - 1], c[1], c[2]))

NoNegative(data) ==
    \A k \in 1..Len(data) :
        \A c \in Cells(data[k]) :
            IsNaN(data[k][c[1]][c[2]]) \/ data[k][c[1]][c[2]][1] >= 0

\* C8: for a cumulative variable the de-cumulation of the steps A of a file is
\* decum(A)[0] = A[0] and decum(A)[i] = A[i] - A[i-1] for i > 0, and after
\* clamping the assembled series holds no negative value
C8_DecumulationAndClamp ==
    "dss" \in DOMAIN res
    => /\ \A k \in 1..Len(res.dss) :
              FirstDifference(arg.assemble.grib_dss[k], res.dss[k].data)
       /\ res.timeserie_dataset.exc = ""
       /\ NoNegative(res.timeserie_dataset.ds.data)

\* a file whose running total falls from one step to the next: the
\* difference is negative and the assembled series holds 0 in its place
C8_Witness ==
    /\ "dss" \in DOMAIN res
    /\ \E k \in 1..Len(res.dss) :
           \E i \in 2..Len(res.dss[k].data) :
               /\ ~IsNaN(res.dss[k].data[i][1][1])
               /\ res.dss[k].data[i][1][1][1] < 0
    /\ \E k \in 1..Len(res.timeserie_dataset.ds.data) :
           res.timeserie_dataset.ds.data[k][1][1] = Num(0)

\* the runs an ingestion request names
RequestedRuns(kwargs) ==
    {kwargs.forecast_run.val[i].t : i \in 1..Len(kwargs.forecast_run.val)}

ListedRunsOf(listing) == {ForecastRunOf(listing[i]) : i \in 1..Len(listing)}

\* C9: a well-formed ingestion whose remote calls all succeed and that names
\* forecast runs absent from the catalog drops them and does not end in an
\* error, also when all the runs it names are absent
C9_AbsentRunsDropped ==
    (/\ last.op = "ingest"
     /\ last.f = NoFailure
     /\ last.kwargs \in GoodIngestRequests
     /\ ~IsNone(last.kwargs.forecast_run)
     /\ RequestedRuns(last.kwargs) \ ListedRunsOf(last.listing) # {})
    => last.exc = ""

\* the partitions a bucket store holds
PartitionKeys(store) == {k \in DOMAIN store : k.name[Len(k.name)] = "nc"}

\* the date of the steps a stored partition holds
StoredDate(content) == DateOf(content.ds.time[1])

\* C10: the key of a stored partition is a function of its variable and its
\* date, a destination holds at most one partition per variable and date, and
\* an ingestion that repeats the one before it leaves the set of keys unchanged
C10_OneKeyPerVariableAndDate ==
    /\ \A k \in PartitionKeys(s3) :
           k = KeyOf(k.loc, s3[k].variable, StoredDate(s3[k]))
    /\ \A k1, k2 \in PartitionKeys(s3) :
           (/\ k1.loc = k2.loc
            /\ s3[k1].variable = s3[k2].variable
            /\ StoredDate(s3[k1]) = StoredDate(s3[k2]))
           => k1 = k2
    /\ last.rerun => DOMAIN s3 = last.pre

\* an ingestion into a bucket run a second time over partitions it overwrote
C10_Witness ==
    /\ last.op = "ingest"
    /\ last.rerun
    /\ ~IsNone(last.kwargs.bucket_destination)
    /\ Calls(last.log, {"s3_upload"}) # {}
    /\ PartitionKeys(s3) # {}

\* C11: for every batch of files handed to the assembler, in the order the
\* catalog listing yields them, the time coordinate of the assembled series
\* is strictly increasing and holds no timestamp twice
C11_TimeStrictlyIncreasing ==
    ("series" \in DOMAIN res /\ res.series.exc = "")
    => \A i \in 1..(Len(res.series.ds.time) - 1) :
           res.series.ds.time[i] < res.series.ds.time[i + 1]

\* C12: within a single retrieval the ingestion run (catalog listing plus one
\* round of file downloads) is invoked at most once, however many of the
\* requested variables miss a partition
C12_BackfillOncePerRetrieval ==
    last.op = "retrieve" => Cardinality(Calls(last.log, {"ingestor_run"})) <= 1

\* the listing request that the run was to be refused has been made
CatalogFailed ==
    /\ last.f.catFail > 0
    /\ Cardinality(Calls(last.log, {"catalog"})) >= last.f.catFail

\* none of the midnight runs the backfill asks for is listed with a file
\* whose download succeeds
NothingFetched ==
    \A d \in Range(RequestedDates(LastRetrieveArgs.time_start, LastRetrieveArgs.time_end)) :
        \A i \in 1..Len(last.listing) :
            ForecastRunOf(last.listing[i]) = d * MinutesPerDay
            => last.listing[i].filename \in last.f.dlFail

\* the latest run is a retrieval whose backfill ingestion failed
BackfillFailed ==
    /\ last.op = "retrieve"
    /\ Calls(last.log, {"ingestor_run"}) # {}
    /\ CatalogFailed \/ NothingFetched

\* the events of a log after its last event ev
After(log, ev) ==
    {log[i] : i \in {j \in 1..Len(log) : \A k \in Calls(log, {ev}) : k < j}}

AfterCall(log, ev, k) ==
    {log[i] : i \in {j \in 1..Len(log) :
                        Cardinality({c \in Calls(log, {ev}) : c < j}) >= k}}

\* C14: when a request of the catalog listing is refused, at whichever point
\* the ingestor makes it, the run ends with ERROR and after the refused
\* request nothing is done but the cleanup: no further listing, no download,
\* no assembly and no partition write
C14_CatalogFailureIsError ==
    (last.op \in {"ingest", "retrieve"} /\ CatalogFailed)
    => /\ last.exc = "ERROR"
       /\ AfterCall(last.log, "catalog", last.f.catFail)
              \subseteq {"cleanup_ingestor", "cleanup_retriever"}
       /\ last.op = "ingest" => (Calls(last.log, {"download", "s3_upload"}) = {}
                                 /\ DOMAIN s3 = last.pre)

\* an ingestion of all the listed runs whose second listing request, the one
\* that resolves the filenames, was refused
C14_Witness ==
    /\ last.op = "ingest"
    /\ IsNone(last.kwargs.forecast_run)
    /\ last.f.catFail = 2
    /\ CatalogFailed
    /\ last.cause = "UnboundLocalError"

\* the latest run is an ingestion that went on to download its files, one of
\* which the publisher refused
DownloadFailed ==
    /\ last.op = "ingest"
    /\ Calls(last.log, {"download"}) # {}
    /\ \E i \in 1..Len(last.listing) :
           /\ last.listing[i].filename \in last.f.dlFail
           /\ \/ IsNone(last.kwargs.forecast_run)
              \/ ForecastRunOf(last.listing[i]) \in RequestedRuns(last.kwargs)

\* C15: an ingestion one of whose file downloads is refused ends with status
\* ERROR; it never completes with status OK on the files that did download
C15_DownloadFailureIsError ==
    DownloadFailed => last.exc = "ERROR"

\* C16: materializing a windowed series of at least one timestep yields a
\* raster with one band per timestep whose band timestamps are ascending and
\* are, element by element, the ISO-8601 strings of the time coordinate
C16_RasterBandsMatchTime ==
    ("raster" \in DOMAIN res /\ Len(arg.materialize.dataset.time) >= 1)
    => /\ res.raster.exc = ""
       /\ res.raster.path \in DOMAIN res.raster.io.fs
       /\ Len(res.raster.io.fs[res.raster.path].raster.bands)
              = Len(arg.materialize.dataset.time)
       /\ res.raster.io.fs[res.raster.path].raster.band_names
              = Tup([i \in 1..Len(arg.materialize.dataset.time) |->
                        IsoString(arg.materialize.dataset.time[i])])
       /\ IsSorted(arg.materialize.dataset.time)

\* the variables a returned value holds a reference for
ReportedVariables(outputs) ==
    Tup([i \in 1..Len(outputs.collected_data_info) |-> outputs.collected_data_info[i].variable])

C19_NoSourceMeansRemote ==
    (/\ last.op = "retrieve"
     /\ IsNone(last.kwargs.bucket_source)
     /\ LastRetrieveArgs.exc = "")
    => /\ Calls(last.log, {"ingestor_run"}) # {}
       /\ Calls(last.log, {"s3_list", "s3_download"}) = {}

\* C20: an ingestion given an output directory creates it and writes every
\* partition file inside it; with no bucket destination every reference it
\* returns is a path inside that directory that still exists after the run
C20_PartitionsInOutputDirectory ==
    (/\ last.op = "ingest"
     /\ last.exc = ""
     /\ last.kwargs.out_dir.kind = "str"
     /\ IsNone(last.kwargs.bucket_destination))
    => /\ Calls(last.log, {"makedirs"}) # {}
       /\ \A i \in 1..Len(last.outputs.collected_data_info) :
              /\ last.outputs.collected_data_info[i].ref.loc = last.kwargs.out_dir.val[1]
              /\ last.outputs.collected_data_info[i].ref \in DOMAIN fs

\* lines 107-108: the end of the window a well-formed time_range resolves to
ResolvedEnd(time_range) ==
    IF time_range.kind = "list" THEN RoundDown(time_range.val[2])
    ELSE RoundDown(time_range.val[1]) + MinutesPerHour

\* a time_range that passes the checks of lines 86-105
WellFormedTimeRange(time_range) ==
    \/ time_range.kind = "str" /\ time_range.val[1].iso
    \/ /\ time_range.kind = "list"
       /\ time_range.val[1].iso
       /\ time_range.val[2].iso
       /\ ~TimeAfter(time_range.val[1], time_range.val[2])

\* C21: a retrieval is accepted only if its resolved end lies within the last
\* 48 hours of now: a resolved end more than 48 hours before now is rejected
\* and no step of the pipeline is run, and an accepted resolved end is never
\* later than now
C21_AcceptedEndWithinLast48Hours ==
    (last.op = "retrieve" /\ WellFormedTimeRange(last.kwargs.time_range))
    => /\ ResolvedEnd(last.kwargs.time_range) < last.clock - WindowHours * MinutesPerHour
          => /\ last.cause = "INVALID"
             /\ Range(last.log) = {"cleanup_retriever"}
       /\ last.cause # "INVALID"
          => /\ ResolvedEnd(last.kwargs.time_range) >= last.clock - WindowHours * MinutesPerHour
             /\ ResolvedEnd(last.kwargs.time_range) <= last.clock

\* the indices of a coordinate whose value lies in [lo, hi]
Inside(coord, lo, hi) == {i \in 1..Len(coord) : lo <= coord[i] /\ coord[i] <= hi}

\* the indices of a coordinate that a validated range keeps, both ends
\* inclusive; no range keeps them all
KeptBy(coord, range) ==
    IF IsNone(range) THEN 1..Len(coord) ELSE Inside(coord, range.val[1], range.val[2])

\* the values of a coordinate at the indices of a set, in the coordinate's
\* order
Sel(coord, idx) ==
    LET in(i) == i \in idx
        ids == SelectSeq(Tup([i \in 1..Len(coord) |-> i]), in)
    IN  Tup([k \in 1..Len(ids) |-> coord[ids[k]]])

\* C22: windowing an already-windowed series with the same ranges returns the
\* same series, and a two-element range keeps of each coordinate exactly the
\* values c with low <= c <= high, with the data of those coordinates
C22_WindowingIdempotentInclusive ==
    "windowed" \in DOMAIN res
    => /\ res.rewindowed = res.windowed
       /\ res.windowed.time
              = Sel(arg.query.dataset.time,
                    Inside(arg.query.dataset.time, arg.query.time_range[1],
                           arg.query.time_range[2]))
       /\ res.windowed.lat
              = Sel(arg.query.dataset.lat, KeptBy(arg.query.dataset.lat, arg.query.lat_range))
       /\ res.windowed.lon
              = Sel(arg.query.dataset.lon, KeptBy(arg.query.dataset.lon, arg.query.lon_range))
       /\ res.windowed.data
              = Sel(Tup([k \in 1..Len(arg.query.dataset.data) |->
                        Sel(Tup([y \in 1..Len(arg.query.dataset.lat) |->
                                Sel(arg.query.dataset.data[k][y],
                                    KeptBy(arg.query.dataset.lon, arg.query.lon_range))]),
                            KeptBy(arg.query.dataset.lat, arg.query.lat_range))]),
                    Inside(arg.query.dataset.time, arg.query.time_range[1],
                           arg.query.time_range[2]))

\* a window that cuts the series on every axis and whose ends are themselves
\* coordinates of the series, kept
C22_Witness ==
    /\ "windowed" \in DOMAIN res
    /\ Len(res.windowed.time) > 1
    /\ Len(res.windowed.time) < Len(arg.query.dataset.time)
    /\ res.windowed.time[1] = arg.query.time_range[1]
    /\ res.windowed.time[Len(res.windowed.time)] = arg.query.time_range[2]
    /\ res.windowed.lat = <<44>>
    /\ arg.query.lat_range = List(<<44, 44>>)
    /\ res.windowed.lon = <<12>>
    /\ Len(arg.query.dataset.lon) = 2

\* C23: de-cumulation is applied only to a cumulative variable: for any other
\* variable the assembled data of each step are the decoded grid of that
\* step, the sentinel read as no-data, with no first difference taken and no
\* negative value changed
C23_OnlyCumulativeDecumulated ==
    ("dss" \in DOMAIN res /\ arg.assemble.variable \notin CumulativeVariables)
    => /\ res.timeserie_dataset.exc = ""
       /\ Len(res.timeserie_dataset.ds.data) = Len(arg.assemble.grib_dss[1])
       /\ \A i \in 1..Len(arg.assemble.grib_dss[1]) :
              \A c \in Cells(res.timeserie_dataset.ds.data[i]) :
                  res.timeserie_dataset.ds.data[i][c[1]][c[2]]
                      = Masked(arg.assemble.grib_dss[1][i], c[1], c[2])

\* the messages of a file that carry the variable, in the file's order
Matching(grib_ds, variable) ==
    LET named(msg) == msg.name = VARIABLES_DICT[variable]
    IN  SelectSeq(grib_ds, named)

\* the steps the assembler is to take of file k of a batch: at most 12 of
\* every file but the last, at most 72 of the last
StepsTaken(grib_dss, k, variable) ==
    Min(Len(Matching(grib_dss[k], variable)), IF k < Len(grib_dss) THEN 12 ELSE 72)

\* C24: of a batch of k files the assembler takes from each of the first k-1
\* files at most the first 12 messages matching the variable and from the
\* last file at most the first 72, and stamps the i-th step taken of a file
\* with the valid time of the file's first message plus i hours
C24_TwelveThenSeventyTwoSteps ==
    "file_datasets" \in DOMAIN res
    => \A k \in 1..Len(arg.files.grib_dss) :
           Matching(arg.files.grib_dss[k], arg.files.variable) # << >>
           => /\ res.file_datasets[k].exc = ""
              /\ res.file_datasets[k].time
                     = Tup([i \in 1..StepsTaken(arg.files.grib_dss, k, arg.files.variable) |->
                               Matching(arg.files.grib_dss[k], arg.files.variable)[1].validDate
                                   + (i - 1) * MinutesPerHour])
              /\ FirstDifference(Take(Matching(arg.files.grib_dss[k], arg.files.variable),
                                      StepsTaken(arg.files.grib_dss, k, arg.files.variable)),
                                 res.file_datasets[k].data)

\* a batch of two files, each holding more steps than are taken of it, whose
\* steps are stamped on from the first although one hour is missing
C24_Witness ==
    /\ "file_datasets" \in DOMAIN res
    /\ Len(arg.files.grib_dss) = 2
    /\ Len(Matching(arg.files.grib_dss[1], arg.files.variable)) > 12
    /\ Len(res.file_datasets[1].time) = 12
    /\ Len(Matching(arg.files.grib_dss[2], arg.files.variable)) > 72
    /\ Len(res.file_datasets[2].time) = 72
    /\ Matching(arg.files.grib_dss[1], arg.files.variable)[2].validDate
           # res.file_datasets[1].time[2]

\* the run of a downloaded file, read from its name
RunOfPath(path) == path.name[2] * MinutesPerDay + path.name[3]

\* C25: whatever the order in which the catalog lists the runs and the order
\* in which they were requested, a successful ingestion hands the downloaded
\* files to the assembler oldest run first, so that the last file, of which
\* up to 72 steps are taken, is the one of the newest run
C25_FilesOldestRunFirst ==
    (last.op = "ingest" /\ last.exc = "")
    => \A i, j \in 1..Len(last.paths) :
           i < j => RunOfPath(last.paths[i]) < RunOfPath(last.paths[j])

\* C26: a file that holds fewer messages of the variable than are taken of
\* it, down to none, makes the series of that file shorter and the assembly
\* raises no error
C26_ShortFileIsShorterSeries ==
    "file_datasets" \in DOMAIN res
    => /\ res.assembled.exc = ""
       /\ \A k \in 1..Len(arg.files.grib_dss) :
              /\ res.file_datasets[k].exc = ""
              /\ Len(res.file_datasets[k].time)
                     = StepsTaken(arg.files.grib_dss, k, arg.files.variable)

\* the start and the end a time_range was given with; no end for a single
\* time string
GivenStart(time_range) == time_range.val[1]

HasEnd(time_range) == time_range.kind = "list"

\* t is the last 5-minute mark not after the given time
FiveMinuteMarkOf(t, given) == t % 5 = 0 /\ t <= given.t /\ given.t < t + 5

\* C27: after a successful validation time_start and time_end are the given
\* times rounded down to a 5-minute mark, seconds and microseconds dropped,
\* time_end is the rounded time_start plus 1 hour when no end was given, and
\* time_start <= time_end
C27_WindowRoundedToFiveMinutes ==
    ("requested_dates" \in DOMAIN res /\ res.exc = "")
    => /\ FiveMinuteMarkOf(res.time_start, GivenStart(arg.window.time_range))
       /\ IF HasEnd(arg.window.time_range)
          THEN FiveMinuteMarkOf(res.time_end, arg.window.time_range.val[2])
          ELSE res.time_end = res.time_start + 60
       /\ res.time_end % 5 = 0
       /\ res.time_start <= res.time_end

\* a start alone, off the 5-minute marks and with seconds, was resolved
C27_Witness ==
    /\ "requested_dates" \in DOMAIN res
    /\ res.exc = ""
    /\ ~HasEnd(arg.window.time_range)
    /\ GivenStart(arg.window.time_range).t % 5 # 0
    /\ GivenStart(arg.window.time_range).sub # 0
    /\ res.time_start < GivenStart(arg.window.time_range).t
    /\ res.time_end = res.time_start + 60

\* C28: a retrieval served entirely from existing partitions, a cache hit for
\* every requested variable, leaves every partition of the store as it was:
\* no partition key is added, overwritten or deleted by the run
C28_CacheHitKeepsPartitions ==
    [][(nruns' = nruns + 1 /\ FullCacheHit')
       => /\ PartitionKeys(s3') = PartitionKeys(s3)
          /\ \A k \in PartitionKeys(s3) : s3'[k] = s3[k]]_vars

\* a retrieval of two variables that downloaded the partitions of both from
\* the bucket and ran no ingestion
C28_Witness ==
    /\ FullCacheHit
    /\ Len(LastRetrieveArgs.variable) = 2
    /\ Cardinality(Calls(last.log, {"s3_download"})) >= 2
    /\ Calls(last.log, {"ingestor_run", "s3_upload"}) = {}
    /\ last.pre \subseteq PartitionKeys(s3)

\* the latest run is a retrieval with a source bucket whose backfill ingestion
\* ran and returned, and whose partitions were resolved for every variable
BackfilledAndResolved ==
    /\ last.op = "retrieve"
    /\ ~IsNone(last.kwargs.bucket_source)
    /\ last.f = NoFailure
    /\ Calls(last.log, {"ingestor_run"}) # {}
    /\ last.cause \in {"", "AttributeError"}

Exists(ref, io) ==
    IF StartsWithS3(ref.loc) THEN ref \in DOMAIN io.s3 ELSE ref \in DOMAIN io.fs

====
